---- MODULE Spec2Model ----
(***************************************************************************)
(* Model of the genui-widget client: createChat, the per-message           *)
(* orchestration (processMessage), the thread-list operations wrapped by   *)
(* withErrorBoundary, the provider send paths and the webhook NDJSON       *)
(* stream transform.                                                       *)
(*                                                                         *)
(* Bytes and characters.  A response body is a sequence of bytes.  The     *)
(* byte alphabet is abstract: every ASCII byte stands for itself, and "M"  *)
(* is one half of a two-byte UTF-8 sequence: "M","M" decodes to the        *)
(* character "U"; a lone "M" followed by another byte decodes to the       *)
(* replacement character "R"; a lone "M" at the end of a chunk is kept by  *)
(* the streaming TextDecoder until the next chunk.  "T" stands for the     *)
(* text thesys= , "V" for the text "true (with its opening quote), "Q"     *)
(* for a double quote and "B" for a backslash.                             *)
(***************************************************************************)
EXTENDS Integers, Sequences, FiniteSets, TLC

\* ------------------------------------------------------------------ bounds

\* Most bytes one response stream carries in the orchestrator specification.
MaxContent == 3

\* Most bytes the network delivers to the webhook transform.
MaxNet == 5

\* Most pieces a response body is made of in the pipeline specification.
MaxPipe == 3

\* Most events an SSE body is made of in the SSE transform's specification.
MaxEvents == 3

\* The most lines of a body of the line-by-line SSE specification.
MaxLines == 3

\* The most processMessage calls of the session specification.
MaxCalls == 2

\* ------------------------------------------------------------ small helpers

Last(s) == s[Len(s)]

Front(s) == SubSeq(s, 1, Len(s) - 1)

RECURSIVE Flatten(_)
Flatten(ss) == IF ss = <<>> THEN <<>> ELSE Head(ss) \o Flatten(Tail(ss))

\* All sequences over S of length 1..n.
RECURSIVE SeqsUpTo(_, _)
SeqsUpTo(S, n) ==
  IF n = 0 THEN {}
  ELSE LET shorter == SeqsUpTo(S, n - 1)
       IN  {<<x>> : x \in S} \cup shorter \cup
           {Append(s, x) : s \in shorter, x \in S}

\* ------------------------------------------------- TextDecoder, TextEncoder

\* One byte through the streaming UTF-8 decoder; st = [text, pending].
DecodeByte(st, b) ==
  IF st.pending
  THEN IF b = "M"
       THEN [text |-> Append(st.text, "U"), pending |-> FALSE]
       ELSE [text |-> st.text \o <<"R", b>>, pending |-> FALSE]
  ELSE IF b = "M"
       THEN [text |-> st.text, pending |-> TRUE]
       ELSE [text |-> Append(st.text, b), pending |-> FALSE]

RECURSIVE DecodeFrom(_, _)
DecodeFrom(st, bytes) ==
  IF bytes = <<>> THEN st
  ELSE DecodeFrom(DecodeByte(st, Head(bytes)), Tail(bytes))

\* decoder.decode(value, { stream: true }): the text of this chunk, and whether
\* an incomplete sequence is kept for the next call.
Decode(pending, bytes) == DecodeFrom([text |-> <<>>, pending |-> pending], bytes)

EncodeChar(c) ==
  IF c = "U" THEN <<"M", "M">> ELSE <<c>>

\* new TextEncoder().encode(content)
RECURSIVE Encode(_)
Encode(text) ==
  IF text = <<>> THEN <<>> ELSE EncodeChar(Head(text)) \o Encode(Tail(text))

\* ------------------------------------------------------------------ values

\* The thread and the message lists a processMessage call is given.
ThreadIds == {"t1"}

ResponseId == "r1"

UserMsg(id, content) == [id |-> id, role |-> "user", content |-> content]

MessageLists ==
  { <<UserMsg("m1", "hi")>>,
    <<UserMsg("m1", "hi"),
      [id |-> "m2", role |-> "assistant", content |-> "yo"],
      UserMsg("m3", "more")>> }

\* The configuration createChat is given: the n8n and langgraph sections are
\* absent, present without their URL, or present with it.
Sections == {"absent", "nourl", "url"}

Configs ==
  [n8n : Sections, langgraph : Sections,
   storageType : {"unset", "none", "localstorage", "langgraph"}]

\* Before createChat is called no configuration is known.
\* The page before createChat: no container element, nothing rendered, no
\* session event yet.
NoUi == [container |-> "absent", rendered |-> FALSE, event |-> "none", selected |-> ""]

\* document.body.appendChild(container), createRoot(container) and
\* root.render(...): the container is in the document, displayed, and the
\* chat is rendered in it.
Mounted == [NoUi EXCEPT !.container = "shown", !.rendered = TRUE]

NoConfig == [n8n |-> "absent", langgraph |-> "absent", storageType |-> "unset"]

\* A configuration createChat binds the given provider and storage adapter
\* for.
ConfigFor(provider, storage) ==
  [n8n |-> IF provider = "webhook" THEN "url" ELSE "absent",
   langgraph |-> IF provider = "langgraph" THEN "url" ELSE "absent",
   storageType |-> storage]

\* A thrown value: the failure it belongs to, whether it is an Error instance,
\* and who constructed it.
NoErr == [fid |-> 0, kind |-> "none", isErr |-> FALSE, ctor |-> "none"]

Thrown(fid, kind, isErr, ctor) ==
  [fid |-> fid, kind |-> kind, isErr |-> isErr, ctor |-> ctor]

\* A storage adapter call: the method, the thread it is about, how its request
\* or its access to the medium ended, what the method returned, and the
\* methods the same handler called before it.
Exchange(op, t, o, ret) ==
  [op |-> op, thread |-> t, outcome |-> o, ret |-> ret, prior |-> <<>>]

NoExchange == Exchange("none", "", "none", "none")

\* What fetch settles with: a rejection with its cause, or a response with its
\* status, whether it has a body, its Content-Type, the text of the body of a
\* success, and the body of a failure as response.json() reads it.
Reply(kind, status, hasBody, contentType, body, errorBody) ==
  [kind |-> kind, status |-> status, hasBody |-> hasBody,
   contentType |-> contentType, body |-> body, errorBody |-> errorBody]

NoErrorBody == [json |-> FALSE, detail |-> "absent", message |-> "absent"]

NoReply == Reply("none", "", FALSE, "", <<>>, NoErrorBody)

\* How many consumers each body was handed to.
NoReaders == [response |-> 0, clone |-> 0]

\* A sendMessage call of a provider: the enableStreaming flag of its config,
\* the reply fetch gave it, the path it took, the consumers of the bodies,
\* the text of the Response it built itself, the message of the Error it
\* threw.
NoSend ==
  [streaming |-> FALSE, reply |-> NoReply, path |-> "none",
   readers |-> NoReaders, text |-> <<>>, message |-> <<>>]

\* A second processMessage invocation, past its sendMessage: where it stands,
\* its thread and messages, the chunks its response stream was given (stream)
\* and those not yet read (pq), and the locals of its wrapped stream.
Invocation(pc, t, msgs, stream) ==
  [pc |-> pc, threadId |-> t, messages |-> msgs, stream |-> stream,
   pq |-> stream, delivered |-> <<>>, fullContent |-> <<>>, marker |-> FALSE,
   odec |-> FALSE, wrapped |-> IF pc = "none" THEN "none" ELSE "readable",
   saved |-> <<>>]

\* No second invocation is in flight.
NoOther == Invocation("none", "", <<>>, <<>>)

\* A parsed line in the hands of the webhook transform: the record, what
\* extractContent returned for it ("null" for null), the fragment enqueued
\* for it ("none" when nothing was).
Extraction(step, record, result, fragment) ==
  [step |-> step, record |-> record, result |-> result, fragment |-> fragment]

NoRecord ==
  [type |-> "absent", content |-> "absent", output |-> "absent",
   message |-> "absent"]

\* No record was handed to the content extractor.
NoExtract == Extraction("none", NoRecord, "null", "none")

\* What the store holds for a thread it has no entry for.
NoThread == <<[id |-> "", role |-> "no thread", content |-> ""]>>

\* ------------------------------------------------------------------- state

VARIABLES
  config,           \* the configuration createChat was given, where it is recorded
  other,            \* a second processMessage invocation in flight
  extract,          \* a record handed to the webhook content extractor
  ui,               \* the page: the container element, what is rendered in it,
                    \* and the session event that came last
  phase,            \* createChat: "uninit", "ready" or "failed"
  storageKind,      \* the bound storage adapter: "none", "localstorage", "langgraph"
  providerKind,     \* the bound provider: "webhook" or "langgraph"
  handler,          \* the top-level handler invoked last
  pc,               \* processMessage: where the invocation stands
  threadId, messages, \* its arguments (responseId is ResponseId)
  currentSessionId, \* createChat's currentSessionId
  sessionStarts,    \* config.onSessionStart calls
  result,           \* processMessage's promise: "none", "returned", "rejected"
  rejectedWith,     \* the value it rejected with
  wrapped,          \* the wrapped stream: "none", "readable", "closed", "errored"
  wrappedErr,       \* the value it was errored with
  delivered,        \* the chunks enqueued on the wrapped stream, in order
  fullContent,      \* the accumulation buffer
  marker,           \* isContentThesysChunkPresent
  odec,             \* the orchestrator's TextDecoder holds an incomplete sequence
  storageCalls,     \* storage.saveThread calls of this invocation, in order
  stored,           \* what the local store holds for the thread
  requests,         \* requests the storage adapter issued, in order
  sendCalls,        \* provider.sendMessage calls, in order
  opResult,         \* what the last thread-list operation returned or threw
  opThrown,         \* the value it threw
  failures,         \* the failures met in the handler invoked last, by kind
  logEntries,       \* console.error entries of that handler, in order
  errsMade,         \* Error objects this code constructed in that handler
  onErrorCalls,     \* values handed to config.onError in that handler
  pstate,           \* the provider's response body: "none", "readable", "closed", "errored"
  perr,             \* the value it was errored with
  pq,               \* chunks enqueued on it and not yet read
  produced,         \* every chunk enqueued on it, in order
  pbad,             \* enqueue/close calls made on it after it was closed or errored
  plocked,          \* the transform's reader still holds the network body's lock
  wire,             \* bytes of the response body the network has yet to deliver
  net,              \* bytes the network delivered to the transform, in order
  carried,          \* some read began with an unfinished line or character held
  currentEvent,     \* SSE transform: name of the event being accumulated
  dataLines,        \* SSE transform: the data: lines of that event
  wbuffer,          \* the transform's line buffer
  wdec,             \* the transform's TextDecoder holds an incomplete sequence
  hasStreamedContent, \* the transform's flag
  wpc,              \* the transform: "none", "reading", "done", "failed"
  send,             \* the provider's sendMessage call: its config flag, the
                    \* reply it got, the path it took, what it returned or threw
  remote,           \* the threads the LangGraph deployment knows
  exchange          \* the last storage adapter call: method, thread, how its
                    \* request ended, what the method returned

confVars == <<config, phase, storageKind, providerKind>>

auxVars == <<other, extract, ui>>

callVars == <<pc, threadId, messages, currentSessionId, sessionStarts, result,
              rejectedWith>>

wrapVars == <<wrapped, wrappedErr, delivered, fullContent, marker, odec>>

storeVars == <<storageCalls, stored, requests, opResult, opThrown, exchange>>

obsVars == <<failures, logEntries, errsMade, onErrorCalls>>

provVars == <<pstate, perr, pq, produced, pbad>>

sseVars == <<currentEvent, dataLines>>
netVars ==
  <<plocked, wire, net, carried, wbuffer, wdec, hasStreamedContent, wpc, sseVars>>

vars == <<confVars, auxVars, handler, callVars, wrapVars, storeVars, sendCalls, obsVars,
          provVars, netVars, send, remote>>

Init ==
  /\ phase = "uninit"
  /\ storageKind = "none"
  /\ providerKind = "none"
  /\ handler = "none"
  /\ pc = "idle"
  /\ threadId = ""
  /\ messages = <<>>
  /\ currentSessionId = "null"
  /\ sessionStarts = <<>>
  /\ result = "none"
  /\ rejectedWith = NoErr
  /\ wrapped = "none"
  /\ wrappedErr = NoErr
  /\ delivered = <<>>
  /\ fullContent = <<>>
  /\ marker = FALSE
  /\ odec = FALSE
  /\ storageCalls = <<>>
  /\ stored = NoThread
  /\ requests = <<>>
  /\ sendCalls = <<>>
  /\ opResult = "none"
  /\ opThrown = NoErr
  /\ failures = <<>>
  /\ logEntries = <<>>
  /\ errsMade = <<>>
  /\ onErrorCalls = <<>>
  /\ pstate = "none"
  /\ perr = NoErr
  /\ pq = <<>>
  /\ produced = <<>>
  /\ pbad = 0
  /\ plocked = FALSE
  /\ wire = <<>>
  /\ net = <<>>
  /\ carried = FALSE
  /\ currentEvent = <<>>
  /\ dataLines = <<>>
  /\ wbuffer = <<>>
  /\ wdec = FALSE
  /\ hasStreamedContent = FALSE
  /\ wpc = "none"
  /\ send = NoSend
  /\ remote = {}
  /\ exchange = NoExchange
  /\ config = NoConfig
  /\ other = NoOther
  /\ extract = NoExtract
  /\ ui = NoUi

\* ------------------------------------------------------------------ logger

\* normalizeError's result: the value itself when it is an Error instance, a
\* new Error(String(error)) otherwise.
NormalizeError(error) ==
  IF error.isErr THEN error
  ELSE Thrown(error.fid, error.kind, TRUE, "normalizeError")

\* The Error objects constructed so far, after normalizeError(error, ...).
ErrsAfterNormalize(errs, error) ==
  IF error.isErr THEN errs ELSE Append(errs, NormalizeError(error))

\* logError(context, ...) about failure fid.
LogError(logs, fid, context) == Append(logs, [fid |-> fid, ctx |-> context])

\* Mutant: the failure is handed to the callback a second time.
NotifyOnErrorTwice(calls, err) == Append(Append(calls, err), err)

\* Mutant: the error callback is not called.
NotifyMissed(calls, err) == calls

\* handleError's onError?.(err): the calls made to the callback createChat
\* was given (with none given, each of them does nothing).
NotifyOnError(calls, err) == Append(calls, err)

\* ------------------------------------------------------------- createChat

CreateChatProvider(cfg) ==
  IF cfg.langgraph = "url" THEN "langgraph"
  ELSE IF cfg.n8n = "url" THEN "webhook"
  ELSE "throw"

\* Mutant: an omitted storageType stands for "none".
StorageTypeNone(cfg) ==
  IF cfg.storageType # "unset" THEN cfg.storageType ELSE "none"

\* config.storageType || (config.langgraph ? "langgraph" : "none")
StorageTypeOf(cfg) ==
  IF cfg.storageType # "unset" THEN cfg.storageType
  ELSE IF cfg.langgraph # "absent" THEN "langgraph" ELSE "none"

CreateStorageAdapter(type, cfg) ==
  IF type = "langgraph"
  THEN IF cfg.langgraph = "url" THEN "langgraph" ELSE "throw"
  ELSE type

\* Where createChat's try block throws, "" when it does not.
CreateChatThrows(cfg) ==
  IF cfg.n8n = "absent" /\ cfg.langgraph = "absent" THEN "createChat"
  ELSE IF CreateChatProvider(cfg) = "throw" THEN "createChatProvider"
  ELSE IF CreateStorageAdapter(StorageTypeOf(cfg), cfg) = "throw"
       THEN "createStorageAdapter"
  ELSE ""

\* Mutant: the container is appended before the configuration is looked at.
AfterFailedInitAppended(page) == [page EXCEPT !.container = "shown"]

\* The page when createChat throws from its try block: the throw comes
\* before document.createElement.
AfterFailedInit(page) == page

CreateChat(cfg) ==
  /\ phase = "uninit"
  /\ handler' = "createChat"
  /\ IF CreateChatThrows(cfg) # ""
     THEN LET error == Thrown(1, "init", TRUE, CreateChatThrows(cfg))
          IN  /\ phase' = "failed"
              /\ failures' = <<"init">>
              /\ errsMade' = <<error>>
              /\ logEntries' =
                   LogError(<<>>, 1, "[createChat] Initialization failed")
              /\ onErrorCalls' =
                   NotifyOnError(<<>>, NormalizeError(error))
              /\ UNCHANGED <<storageKind, providerKind>>
              /\ ui' = AfterFailedInit(ui)
     ELSE /\ phase' = "ready"
          /\ providerKind' = CreateChatProvider(cfg)
          /\ storageKind' = CreateStorageAdapter(StorageTypeOf(cfg), cfg)
          /\ ui' = Mounted
          /\ UNCHANGED obsVars
  /\ UNCHANGED <<other, extract, callVars, wrapVars, storeVars, sendCalls, provVars,
                 netVars, send, remote>>

\* ---------------------------------------------------------- processMessage

\* Mutant: the agent-managed adapter is not recognised.
IsLangGraphNever == storageKind = "langraph"

\* storage instanceof LangGraphStorageAdapter
IsLangGraph == storageKind = "langgraph"

\* lastMessage?.content || ""
PromptOf(msgs) == IF msgs = <<>> THEN "" ELSE Last(msgs).content

\* How a storage.saveThread call can settle, by adapter.
SaveOutcomes(kind) ==
  IF kind = "localstorage" THEN {"ok", "throwError", "throwValue"} ELSE {"ok"}

\* What saveThread leaves in the store.
StoreAfterSave(kind, old, msgs) == IF kind = "localstorage" THEN msgs ELSE old

SendCall(t, msgs) == [sessionId |-> t, prompt |-> PromptOf(msgs)]

\* Mutant: the pre-send save is not awaited, the send starts beside it.
ProcessMessageNoAwait(t, msgs) ==
  /\ phase = "ready"
  /\ pc = "idle"
  /\ handler' = "processMessage"
  /\ threadId' = t
  /\ messages' = msgs
  /\ currentSessionId' = t
  /\ sessionStarts' =
       IF Len(msgs) = 1 THEN Append(sessionStarts, t) ELSE sessionStarts
  /\ failures' = <<>>
  /\ logEntries' = <<>>
  /\ errsMade' = <<>>
  /\ onErrorCalls' = <<>>
  /\ opResult' = "none"
  /\ opThrown' = NoErr
  /\ exchange' = NoExchange
  /\ requests' = <<>>
  /\ sendCalls' = Append(sendCalls, SendCall(t, msgs))
  /\ IF ~IsLangGraph
     THEN /\ storageCalls' = <<[threadId |-> t, messages |-> msgs]>>
          /\ pc' = "saveUser"
     ELSE /\ pc' = "sending"
          /\ storageCalls' = <<>>
  /\ ui' = [ui EXCEPT !.event = "processMessage"]
  /\ UNCHANGED <<confVars, other, extract, send, remote, result, rejectedWith,
                 wrapVars, stored, provVars, netVars>>

\* processMessage up to its first await.
ProcessMessage(t, msgs) ==
  /\ phase = "ready"
  /\ pc = "idle"
  /\ handler' = "processMessage"
  /\ threadId' = t
  /\ messages' = msgs
  /\ currentSessionId' = t
  /\ sessionStarts' =
       IF Len(msgs) = 1 THEN Append(sessionStarts, t) ELSE sessionStarts
  /\ failures' = <<>>
  /\ logEntries' = <<>>
  /\ errsMade' = <<>>
  /\ onErrorCalls' = <<>>
  /\ opResult' = "none"
  /\ opThrown' = NoErr
  /\ exchange' = NoExchange
  /\ requests' = <<>>
  /\ IF ~IsLangGraph
     THEN /\ storageCalls' = <<[threadId |-> t, messages |-> msgs]>>
          /\ pc' = "saveUser"
          /\ UNCHANGED sendCalls
     ELSE /\ sendCalls' = Append(sendCalls, SendCall(t, msgs))
          /\ pc' = "sending"
          /\ storageCalls' = <<>>
  /\ ui' = [ui EXCEPT !.event = "processMessage"]
  /\ UNCHANGED <<confVars, other, extract, send, remote, result, rejectedWith,
                 wrapVars, stored, provVars, netVars>>

\* The pre-send storage.saveThread settles; the send follows either way.
\* A later processMessage call, the one before it over: the same first
\* steps, on locals of its own (reader, decoder, buffer, flag, stream).
ProcessMessageNext(t, msgs) ==
  /\ phase = "ready"
  /\ pc = "done"
  /\ Len(sendCalls) < MaxCalls
  /\ handler' = "processMessage"
  /\ threadId' = t
  /\ messages' = msgs
  /\ currentSessionId' = t
  /\ sessionStarts' =
       IF Len(msgs) = 1 THEN Append(sessionStarts, t) ELSE sessionStarts
  /\ failures' = <<>>
  /\ logEntries' = <<>>
  /\ errsMade' = <<>>
  /\ onErrorCalls' = <<>>
  /\ opResult' = "none"
  /\ opThrown' = NoErr
  /\ exchange' = NoExchange
  /\ requests' = <<>>
  /\ result' = "none"
  /\ rejectedWith' = NoErr
  /\ wrapped' = "none"
  /\ wrappedErr' = NoErr
  /\ delivered' = <<>>
  /\ fullContent' = <<>>
  /\ marker' = FALSE
  /\ odec' = FALSE
  /\ pstate' = "none"
  /\ perr' = NoErr
  /\ pq' = <<>>
  /\ produced' = <<>>
  /\ plocked' = FALSE
  /\ IF ~IsLangGraph
     THEN /\ storageCalls' = <<[threadId |-> t, messages |-> msgs]>>
          /\ pc' = "saveUser"
          /\ UNCHANGED sendCalls
     ELSE /\ sendCalls' = Append(sendCalls, SendCall(t, msgs))
          /\ pc' = "sending"
          /\ storageCalls' = <<>>
  /\ ui' = [ui EXCEPT !.event = "processMessage"]
  /\ UNCHANGED <<confVars, other, extract, send, remote, stored, pbad, wire,
                 net, carried, wbuffer, wdec, hasStreamedContent, wpc, sseVars>>

\* onSelectThread: (threadId) => onSessionIdChange(threadId)
OnSelectThread(t) ==
  /\ phase = "ready"
  /\ handler' = "onSelectThread"
  /\ currentSessionId' = t
  /\ ui' = [ui EXCEPT !.event = "onSelectThread", !.selected = t]
  /\ UNCHANGED <<confVars, other, extract, send, remote, pc, threadId, messages,
                 sessionStarts, result, rejectedWith, wrapVars, storeVars,
                 sendCalls, obsVars, provVars, netVars>>

\* Mutant: switching to a new thread clears the session id.
SessionAfterSwitchCleared(current) == "null"

\* onSwitchToNew: () => {}: the session id is left as it is.
SessionAfterSwitch(current) == current

OnSwitchToNew ==
  /\ phase = "ready"
  /\ handler' = "onSwitchToNew"
  /\ currentSessionId' = SessionAfterSwitch(currentSessionId)
  /\ UNCHANGED <<confVars, auxVars, send, remote, pc, threadId, messages,
                 sessionStarts, result, rejectedWith, wrapVars, storeVars,
                 sendCalls, obsVars, provVars, netVars>>

\* instance.open() and instance.close(): container.style.display.
SetDisplay(display) ==
  /\ phase = "ready"
  /\ display \in {"shown", "hidden"}
  /\ handler' = (IF display = "shown" THEN "open" ELSE "close")
  /\ ui' = [ui EXCEPT !.container = display]
  /\ UNCHANGED <<confVars, other, extract, send, remote, callVars, wrapVars,
                 storeVars, sendCalls, obsVars, provVars, netVars>>

\* getSessionId: () => currentSessionId || ""
GetSessionId == IF currentSessionId = "null" THEN "" ELSE currentSessionId

\* Mutant: a failed pre-send save ends the call.
AfterSaveUserStrict(outcome) == IF outcome = "ok" THEN "sending" ELSE "done"

\* Where processMessage goes once the pre-send save has settled: the catch
\* falls through to the send.
AfterSaveUser(outcome) == "sending"

SaveUserSettle(outcome) ==
  /\ pc = "saveUser"
  /\ outcome \in SaveOutcomes(storageKind)
  /\ IF outcome = "ok"
     THEN /\ stored' = StoreAfterSave(storageKind, stored, messages)
          /\ UNCHANGED obsVars
     ELSE LET error ==
                Thrown(Len(failures) + 1, "saveUser", outcome = "throwError", "storage")
          IN  /\ failures' = Append(failures, error.kind)
              /\ logEntries' =
                   LogError(logEntries, error.fid,
                            "[Storage] saveThread (user messages) failed")
              /\ errsMade' = ErrsAfterNormalize(errsMade, error)
              /\ UNCHANGED <<stored, onErrorCalls>>
  /\ sendCalls' = IF AfterSaveUser(outcome) = "sending"
                  THEN Append(sendCalls, SendCall(threadId, messages))
                  ELSE sendCalls
  /\ pc' = AfterSaveUser(outcome)
  /\ UNCHANGED <<confVars, auxVars, send, remote, handler, threadId, messages, currentSessionId,
                 sessionStarts, result, rejectedWith, wrapVars, storageCalls,
                 requests, opResult, opThrown, exchange, provVars, netVars>>

\* How provider.sendMessage can settle: the request cannot be sent, the
\* status is not a success, the response has no body, or a response stream.
SendOutcomes == {"connect", "backend", "nobody", "stream"}

ProviderTag(kind) == IF kind = "webhook" THEN "[Webhook]" ELSE "[LangGraph]"

\* What the provider itself logs with logError before it throws, <<>> when
\* it logs nothing.
ProviderLogContext(kind, outcome) ==
  IF outcome = "connect" THEN <<ProviderTag(kind), "Network error:">>
  ELSE IF outcome = "backend" THEN <<ProviderTag(kind), "API error:">>
  ELSE <<>>

LogsAfterProvider(logs, kind, outcome, fid) ==
  IF ProviderLogContext(kind, outcome) = <<>> THEN logs
  ELSE LogError(logs, fid, ProviderLogContext(kind, outcome))

\* Mutant: the boundary throws a new Error wrapping the one it caught.
BoundaryRewraps(error) == Thrown(error.fid, error.kind, TRUE, "withErrorBoundary")

\* withErrorBoundary's catch, no fallback given: the value it throws.
BoundaryThrows(error) == NormalizeError(error)

\* provider.sendMessage settles, under withErrorBoundary.
SendSettle(outcome) ==
  /\ pc = "sending"
  /\ outcome \in SendOutcomes
  /\ IF outcome # "stream"
     THEN LET error == Thrown(Len(failures) + 1, outcome, TRUE, "provider")
          IN  /\ failures' = Append(failures, error.kind)
              /\ errsMade' = ErrsAfterNormalize(Append(errsMade, error), error)
              /\ logEntries' =
                   LogError(LogsAfterProvider(logEntries, providerKind, outcome,
                                              error.fid),
                            error.fid, "[Provider] sendMessage failed")
              /\ onErrorCalls' =
                   NotifyOnError(onErrorCalls, NormalizeError(error))
              /\ result' = "rejected"
              /\ rejectedWith' = BoundaryThrows(error)
              /\ pc' = "done"
              /\ UNCHANGED <<wrapped, pstate, plocked>>
     ELSE /\ pstate' = "readable"
          /\ plocked' = TRUE
          /\ wrapped' = "readable"
          /\ result' = "returned"
          /\ pc' = "streaming"
          /\ UNCHANGED <<obsVars, rejectedWith>>
  /\ UNCHANGED <<confVars, auxVars, send, remote, handler, threadId, messages, currentSessionId,
                 sessionStarts, wrappedErr, delivered, fullContent, marker,
                 odec, storeVars, sendCalls, perr, pq, produced, pbad, wire,
                 net, carried, wbuffer, wdec, hasStreamedContent, wpc, sseVars>>

\* ---------------------------------------- the provider's response body

\* The bytes a response stream of the orchestrator specification carries.
StreamBytes == {"T", "B", "V", "Q", "M"}

ProducedLen == Len(Flatten(produced))

\* The chunks of 1..n bytes, for every n the bound leaves room for.
ChunksUpTo == [n \in 0..MaxContent |-> SeqsUpTo(StreamBytes, n)]

\* The provider enqueues one more chunk while the orchestrator awaits it.
ProvEmit ==
  /\ pc = "streaming"
  /\ pstate = "readable"
  /\ pq = <<>>
  /\ \E chunk \in ChunksUpTo[MaxContent - ProducedLen] :
       /\ pq' = <<chunk>>
       /\ produced' = Append(produced, chunk)
  /\ UNCHANGED <<confVars, auxVars, send, remote, handler, callVars, wrapVars, storeVars, sendCalls,
                 obsVars, pstate, perr, pbad, netVars>>

\* The body ends: controller.close(), reader.releaseLock().
ProvClose ==
  /\ pc = "streaming"
  /\ pstate = "readable"
  /\ pstate' = "closed"
  /\ plocked' = FALSE
  /\ UNCHANGED <<confVars, auxVars, send, remote, handler, callVars, wrapVars, storeVars, sendCalls,
                 obsVars, perr, pq, produced, pbad, wire, net, carried, wbuffer,
                 wdec, hasStreamedContent, wpc, sseVars>>

\* Mutant: the chunks queued before the error stay readable.
QueueKept(q) == q

\* What erroring a ReadableStream leaves of its queue.
QueueAfterError(q) == <<>>

\* Reading the network body fails inside the transform: its catch logs and
\* errors the stream; its finally then calls controller.close() on the errored
\* stream, which throws before reader.releaseLock().
ProvFail ==
  /\ pc = "streaming"
  /\ pstate = "readable"
  /\ LET error == Thrown(Len(failures) + 1, "read", TRUE, "platform")
     IN  /\ failures' = Append(failures, error.kind)
         /\ logEntries' =
              LogError(logEntries, error.fid,
                       <<ProviderTag(providerKind), "Streaming error:">>)
         /\ perr' = error
  /\ pstate' = "errored"
  /\ pq' = QueueAfterError(pq)
  /\ pbad' = pbad + 1
  /\ UNCHANGED <<confVars, auxVars, send, remote, handler, callVars, wrapVars, storeVars, sendCalls,
                 errsMade, onErrorCalls, produced, netVars>>

\* ------------------------------------------------------ the wrapped stream

\* /thesys=\\?"true\\?"/ matches text at position i.
MarkerAt(text, i) ==
  LET at(k) == IF k <= Len(text) THEN text[k] ELSE "end"
      v == IF at(i + 1) = "B" THEN i + 2 ELSE i + 1
      q == IF at(v + 1) = "B" THEN v + 2 ELSE v + 1
  IN  at(i) = "T" /\ at(v) = "V" /\ at(q) = "Q"

\* regex.test(fullContent)
HasMarker(text) == \E i \in 1..Len(text) : MarkerAt(text, i)

\* Mutant: the test looks for thesys= alone.
MarkerAfterLoose(flag, text) == flag \/ \E i \in 1..Len(text) : text[i] = "T"

\* The flag after one more chunk.
MarkerAfter(flag, text) == flag \/ HasMarker(text)

\* Mutant: the decoded text is put before what was accumulated.
AccumulateFront(full, text) == text \o full

\* Mutant: the buffer holds the last chunk's text only.
AccumulateLast(full, text) == text

\* fullContent += chunk
Accumulate(full, text) == full \o text

\* Mutant: what is enqueued is the decoded text, encoded again.
EnqueueText(out, value, text) == Append(out, Encode(text))

\* controller.enqueue(value): the chunk goes downstream as it was read.
Enqueue(out, value, text) == Append(out, value)

\* One turn of the read loop: decode, accumulate, test, enqueue.
OrchRead ==
  /\ pc = "streaming"
  /\ pq # <<>>
  /\ LET value == Head(pq)
         d == Decode(odec, value)
     IN  /\ fullContent' = Accumulate(fullContent, d.text)
         /\ odec' = d.pending
         /\ marker' = MarkerAfter(marker, Accumulate(fullContent, d.text))
         /\ delivered' = Enqueue(delivered, value, d.text)
  /\ pq' = Tail(pq)
  /\ UNCHANGED <<confVars, auxVars, send, remote, handler, callVars, wrapped, wrappedErr, storeVars,
                 sendCalls, obsVars, pstate, perr, produced, pbad, netVars>>

AssistantMessage(content) ==
  [id |-> ResponseId, role |-> "assistant", content |-> content]

\* Mutant: the assistant message is put before the input messages.
AssistantSaveFirst(t, msgs, content) ==
  [threadId |-> t, messages |-> <<AssistantMessage(content)>> \o msgs]

\* The post-stream storage.saveThread call.
AssistantSave(t, msgs, content) ==
  [threadId |-> t, messages |-> Append(msgs, AssistantMessage(content))]

\* Mutant: done is reported as soon as the stream is closed, chunks still
\* queued or not.
ReadDoneEarly(q, state) == state = "closed"

\* const { done } = await reader.read(): done is reported once the stream is
\* closed and every chunk queued on it was read.
ReadDone(q, state) == q = <<>> /\ state = "closed"

\* reader.read() reports done: the marker check, then the post-stream save.
OrchReadDone ==
  /\ pc = "streaming"
  /\ ReadDone(pq, pstate)
  /\ IF ~marker
     THEN LET error == Thrown(Len(failures) + 1, "marker", TRUE, "processMessage")
          IN  /\ failures' = Append(failures, error.kind)
              /\ errsMade' = ErrsAfterNormalize(Append(errsMade, error), error)
              /\ logEntries' =
                   LogError(logEntries, error.fid, "[Provider] Streaming failed")
              /\ onErrorCalls' =
                   NotifyOnError(onErrorCalls, NormalizeError(error))
              /\ wrapped' = "errored"
              /\ wrappedErr' = error
              /\ pc' = "done"
              /\ UNCHANGED storageCalls
     ELSE IF IsLangGraph
     THEN /\ wrapped' = "closed"
          /\ pc' = "done"
          /\ UNCHANGED <<obsVars, wrappedErr, storageCalls>>
     ELSE /\ storageCalls' =
               Append(storageCalls,
                      AssistantSave(threadId, messages, fullContent))
          /\ pc' = "saveAsst"
          /\ UNCHANGED <<obsVars, wrapped, wrappedErr>>
  /\ UNCHANGED <<confVars, auxVars, send, remote, handler, threadId, messages, currentSessionId,
                 sessionStarts, result, rejectedWith, delivered, fullContent,
                 marker, odec, stored, requests, opResult, opThrown, exchange,
                 sendCalls,
                 provVars, netVars>>

\* Mutant: a failed post-stream save errors the wrapped stream.
WrappedAfterSaveStrict(outcome) == IF outcome = "ok" THEN "closed" ELSE "errored"

\* Mutant: the catch of a failed post-stream save leaves without the close.
WrappedAfterSaveOpen(outcome) == IF outcome = "ok" THEN "closed" ELSE "readable"

\* The wrapped stream's state once the post-stream save has settled.
WrappedAfterSave(outcome) == "closed"

\* The post-stream storage.saveThread settles: a failure is logged only.
SaveAsstSettle(outcome) ==
  /\ pc = "saveAsst"
  /\ outcome \in SaveOutcomes(storageKind)
  /\ IF outcome = "ok"
     THEN /\ stored' = StoreAfterSave(storageKind, stored, Last(storageCalls).messages)
          /\ UNCHANGED obsVars
     ELSE LET error ==
                Thrown(Len(failures) + 1, "saveAsst", outcome = "throwError", "storage")
          IN  /\ failures' = Append(failures, error.kind)
              /\ logEntries' =
                   LogError(logEntries, error.fid,
                            "[Storage] saveThread (assistant message) failed")
              /\ errsMade' = ErrsAfterNormalize(errsMade, error)
              /\ UNCHANGED <<stored, onErrorCalls>>
  /\ wrapped' = WrappedAfterSave(outcome)
  /\ pc' = "done"
  /\ UNCHANGED <<confVars, auxVars, send, remote, handler, threadId, messages, currentSessionId,
                 sessionStarts, result, rejectedWith, wrappedErr, delivered,
                 fullContent, marker, odec, storageCalls, requests, opResult,
                 opThrown, exchange, sendCalls, provVars, netVars>>

\* reader.read() rejects: the catch reports the failure and errors the
\* wrapped stream with the value caught.
OrchReadError ==
  /\ pc = "streaming"
  /\ pstate = "errored"
  /\ errsMade' = ErrsAfterNormalize(errsMade, perr)
  /\ logEntries' = LogError(logEntries, perr.fid, "[Provider] Streaming failed")
  /\ onErrorCalls' = NotifyOnError(onErrorCalls, NormalizeError(perr))
  /\ wrapped' = "errored"
  /\ wrappedErr' = perr
  /\ pc' = "done"
  /\ UNCHANGED <<confVars, auxVars, send, remote, handler, threadId, messages, currentSessionId,
                 sessionStarts, result, rejectedWith, delivered, fullContent,
                 marker, odec, storeVars, sendCalls, failures, provVars, netVars>>

\* ------------------------------------------- a second invocation in flight

\* Mutant: fullContent is one binding that every invocation appends to.
SharedBuffer(own, first) == first \o own

\* let fullContent = "" is a binding of the invocation: the buffer an
\* invocation appends to is its own, whatever the first invocation holds.
OwnBuffer(own, first) == own

\* One turn of the second invocation's read loop.
OtherRead ==
  /\ other.pc = "streaming"
  /\ other.pq # <<>>
  /\ LET value == Head(other.pq)
         d == Decode(other.odec, value)
         content == Accumulate(OwnBuffer(other.fullContent, fullContent), d.text)
     IN  other' = [other EXCEPT !.fullContent = content,
                                !.odec = d.pending,
                                !.marker = MarkerAfter(@, content),
                                !.delivered = Append(@, value),
                                !.pq = Tail(@)]
  /\ UNCHANGED <<confVars, extract, ui, send, remote, handler, callVars, wrapVars,
                 storeVars, sendCalls, obsVars, provVars, netVars>>

\* Its reader.read() reports done: the marker check, then its post-stream
\* save.
OtherReadDone ==
  /\ other.pc = "streaming"
  /\ other.pq = <<>>
  /\ IF ~other.marker
     THEN LET error == Thrown(Len(failures) + 1, "marker", TRUE, "processMessage")
          IN  /\ failures' = Append(failures, error.kind)
              /\ errsMade' = ErrsAfterNormalize(Append(errsMade, error), error)
              /\ logEntries' =
                   LogError(logEntries, error.fid, "[Provider] Streaming failed")
              /\ onErrorCalls' =
                   NotifyOnError(onErrorCalls, NormalizeError(error))
              /\ other' = [other EXCEPT !.wrapped = "errored", !.pc = "done"]
     ELSE IF IsLangGraph
     THEN /\ other' = [other EXCEPT !.wrapped = "closed", !.pc = "done"]
          /\ UNCHANGED obsVars
     ELSE /\ other' =
               [other EXCEPT
                  !.saved = <<AssistantSave(other.threadId, other.messages,
                                            other.fullContent)>>,
                  !.pc = "saveAsst"]
          /\ UNCHANGED obsVars
  /\ UNCHANGED <<confVars, extract, ui, send, remote, handler, callVars, wrapVars,
                 storeVars, sendCalls, provVars, netVars>>

\* Its post-stream storage.saveThread settles.
OtherSaveSettle(outcome) ==
  /\ other.pc = "saveAsst"
  /\ outcome \in SaveOutcomes(storageKind)
  /\ IF outcome = "ok"
     THEN /\ stored' = IF other.threadId = threadId
                       THEN StoreAfterSave(storageKind, stored,
                                           other.saved[1].messages)
                       ELSE stored
          /\ UNCHANGED obsVars
     ELSE LET error ==
                Thrown(Len(failures) + 1, "saveAsst", outcome = "throwError", "storage")
          IN  /\ failures' = Append(failures, error.kind)
              /\ logEntries' =
                   LogError(logEntries, error.fid,
                            "[Storage] saveThread (assistant message) failed")
              /\ errsMade' = ErrsAfterNormalize(errsMade, error)
              /\ UNCHANGED <<stored, onErrorCalls>>
  /\ other' = [other EXCEPT !.wrapped = WrappedAfterSave(outcome), !.pc = "done"]
  /\ UNCHANGED <<confVars, extract, ui, send, remote, handler, callVars, wrapVars,
                 storageCalls, requests, opResult, opThrown, exchange, sendCalls,
                 provVars, netVars>>

\* ------------------------------------- WebhookProvider.transformStream

\* The bytes a webhook response body carries.  "{" stands for the text
\* {"type":"item","content":" that opens a record and "}" for the text "}
\* that closes it; what stands between them is the record's content.
NetBytes == {"{", "}", "a", " ", "\n", "M"}

\* buffer.split("\n")
RECURSIVE SplitLines(_)
SplitLines(text) ==
  IF \A i \in 1..Len(text) : text[i] # "\n" THEN <<text>>
  ELSE LET i == CHOOSE k \in 1..Len(text) :
                  text[k] = "\n" /\ \A j \in 1..(k - 1) : text[j] # "\n"
       IN  <<SubSeq(text, 1, i - 1)>> \o SplitLines(SubSeq(text, i + 1, Len(text)))

Whitespace == {" ", "\n"}

\* String.prototype.trim
RECURSIVE Trim(_)
Trim(text) ==
  IF text = <<>> THEN <<>>
  ELSE IF Head(text) \in Whitespace THEN Trim(Tail(text))
  ELSE IF Last(text) \in Whitespace THEN Trim(Front(text))
  ELSE text

\* The tokens that open and close a JSON document: "{" opens an item record,
\* "O" stands for {"output":" and "G" for {"message":"; "}" closes each.
Openers == {"{", "O", "G"}

\* JSON.parse(text): whether the text is one JSON document, the field its
\* string stands in, and the string.  A string holds no raw newline.  "N"
\* stands for the document null.
ParseDocument(text) ==
  LET t == Trim(text)
      inner == SubSeq(t, 2, Len(t) - 1)
  IN  IF t = <<"N">>
      THEN [ok |-> TRUE, shape |-> "null", content |-> <<>>, json |-> t]
      ELSE IF /\ Len(t) >= 2
         /\ t[1] \in Openers
         /\ t[Len(t)] = "}"
         /\ \A i \in 1..Len(inner) : inner[i] \notin Openers \cup {"}", "\n"}
      THEN [ok |-> TRUE,
            shape |-> IF t[1] = "{" THEN "item"
                      ELSE IF t[1] = "O" THEN "output" ELSE "message",
            content |-> inner, json |-> t]
      ELSE [ok |-> FALSE, shape |-> "none", content |-> <<>>, json |-> <<>>]

\* JSON.parse(line) followed by extractContent, in one try: whether both
\* went through (reading a field of null throws), and the content of the
\* record the line holds.
ParseLine(line) ==
  [ok |-> ParseDocument(line).ok /\ ParseDocument(line).shape # "null",
   content |-> ParseDocument(line).content]

\* The transform's locals, with what it enqueued (out) and the lines it
\* skipped with a logged error (skipped).
Transform(buffer, dec, streamed, out, skipped) ==
  [buffer |-> buffer, dec |-> dec, streamed |-> streamed, out |-> out,
   skipped |-> skipped]

\* One complete line of the read loop.
TransformLine(w, line) ==
  IF Trim(line) = <<>> THEN w
  ELSE LET p == ParseLine(line)
       IN  IF ~p.ok THEN [w EXCEPT !.skipped = w.skipped + 1]
           ELSE IF p.content = <<>> THEN w
           ELSE [w EXCEPT !.out = Append(w.out, Encode(p.content)),
                          !.streamed = TRUE]

\* Mutant: the loop over the lines stops at a line that does not parse.
RECURSIVE TransformLinesStop(_, _)
TransformLinesStop(w, lines) ==
  IF lines = <<>> THEN w
  ELSE IF Trim(Head(lines)) # <<>> /\ ~ParseLine(Head(lines)).ok
  THEN [w EXCEPT !.skipped = w.skipped + 1]
  ELSE TransformLinesStop(TransformLine(w, Head(lines)), Tail(lines))

\* for (const line of lines)
RECURSIVE TransformLines(_, _)
TransformLines(w, lines) ==
  IF lines = <<>> THEN w
  ELSE TransformLines(TransformLine(w, Head(lines)), Tail(lines))

\* Mutant: the incomplete trailing line is dropped, not kept.
LeftoverDropped(lines) == <<>>

\* buffer = lines.pop() || ""
Leftover(lines) == Last(lines)

\* One turn of the read loop on a chunk.
TransformChunk(w, chunk) ==
  LET d == Decode(w.dec, chunk)
      lines == SplitLines(w.buffer \o d.text)
  IN  TransformLines([w EXCEPT !.buffer = Leftover(lines), !.dec = d.pending],
                     Front(lines))

\* After the loop: the remaining buffer is parsed once; when that fails it is
\* enqueued as it is, unless content was enqueued before.
\* Mutant: a leftover that does not parse is enqueued whatever came before.
TransformFlushAlways(w) ==
  IF Trim(w.buffer) = <<>> THEN w
  ELSE LET p == ParseLine(w.buffer)
       IN  IF p.ok
           THEN IF p.content = <<>> THEN w
                ELSE [w EXCEPT !.out = Append(w.out, Encode(p.content)),
                               !.streamed = TRUE]
           ELSE [w EXCEPT !.out = Append(w.out, Encode(w.buffer))]

TransformFlush(w) ==
  IF Trim(w.buffer) = <<>> THEN w
  ELSE LET p == ParseLine(w.buffer)
       IN  IF p.ok
           THEN IF p.content = <<>> THEN w
                ELSE [w EXCEPT !.out = Append(w.out, Encode(p.content)),
                               !.streamed = TRUE]
           ELSE IF ~w.streamed
                THEN [w EXCEPT !.out = Append(w.out, Encode(w.buffer))]
                ELSE [w EXCEPT !.skipped = w.skipped + 1]

\* let buffer = ""; let hasStreamedContent = false, and a fresh TextDecoder.
TransformStart == Transform(<<>>, FALSE, FALSE, <<>>, 0)

Locals == Transform(wbuffer, wdec, hasStreamedContent, <<>>, 0)

RECURSIVE LogSkipped(_, _, _)
LogSkipped(logs, n, context) ==
  IF n = 0 THEN logs ELSE LogSkipped(LogError(logs, 0, context), n - 1, context)

\* reader.read() yields a chunk.
WebhookRead(chunk) ==
  /\ providerKind = "webhook"
  /\ wpc = "reading"
  /\ chunk # <<>>
  /\ LET w == TransformChunk(Locals, chunk)
     IN  /\ wbuffer' = w.buffer
         /\ wdec' = w.dec
         /\ hasStreamedContent' = w.streamed
         /\ pq' = pq \o w.out
         /\ produced' = produced \o w.out
         /\ logEntries' =
              LogSkipped(logEntries, w.skipped,
                         <<"[Webhook]", "Failed to parse streaming line:">>)
  /\ net' = net \o chunk
  /\ carried' = (carried \/ wbuffer # <<>> \/ wdec)
  /\ UNCHANGED <<confVars, auxVars, send, remote, handler, callVars, wrapVars, storeVars, sendCalls,
                 failures, errsMade, onErrorCalls, pstate, perr, pbad, plocked,
                 wpc, sseVars>>

\* reader.read() reports done: the flush, then controller.close() and
\* reader.releaseLock().
WebhookEnd ==
  /\ providerKind = "webhook"
  /\ wpc = "reading"
  /\ wire = <<>>
  /\ LET w == TransformFlush(Locals)
     IN  /\ hasStreamedContent' = w.streamed
         /\ pq' = pq \o w.out
         /\ produced' = produced \o w.out
         /\ logEntries' =
              LogSkipped(logEntries, w.skipped,
                         <<"[Webhook]", "Failed to parse final streaming data:">>)
  /\ pstate' = "closed"
  /\ plocked' = FALSE
  /\ wpc' = "done"
  /\ UNCHANGED <<confVars, auxVars, send, remote, handler, callVars, wrapVars, storeVars, sendCalls,
                 failures, errsMade, onErrorCalls, perr, pbad, wire, net,
                 carried, wbuffer, wdec, sseVars>>

\* reader.read() rejects: the catch logs and errors the output stream; the
\* finally then calls controller.close() on the errored stream, which throws
\* before reader.releaseLock().
WebhookFail ==
  /\ providerKind = "webhook"
  /\ wpc = "reading"
  /\ LET error == Thrown(Len(failures) + 1, "read", TRUE, "platform")
     IN  /\ failures' = Append(failures, error.kind)
         /\ logEntries' =
              LogError(logEntries, error.fid, <<"[Webhook]", "Streaming error:">>)
         /\ perr' = error
  /\ pstate' = "errored"
  /\ pq' = QueueAfterError(pq)
  /\ pbad' = pbad + 1
  /\ wpc' = "failed"
  /\ UNCHANGED <<confVars, auxVars, send, remote, handler, callVars, wrapVars, storeVars, sendCalls,
                 errsMade, onErrorCalls, produced, plocked, wire, net, carried,
                 wbuffer, wdec, hasStreamedContent, sseVars>>

\* ------------------------------------------ the webhook content extractor

\* typeof value === "string", for a field that is absent, a string, or a
\* value of another type.
IsString(value) == value \notin {"absent", "nonstring"}

\* extractContent(data)
ExtractContent(data) ==
  IF data.type = "item" /\ IsString(data.content) THEN data.content
  ELSE IF IsString(data.output) THEN data.output
  ELSE IF IsString(data.message) THEN data.message
  ELSE "null"

\* const content = extractContent(data); if (content) controller.enqueue(...)
ExtractLine ==
  /\ extract.step = "parsed"
  /\ LET content == ExtractContent(extract.record)
     IN  extract' = Extraction("done", extract.record, content,
                               IF content \notin {"null", ""} THEN content
                               ELSE "none")
  /\ UNCHANGED <<confVars, other, ui, send, remote, handler, callVars, wrapVars,
                 storeVars, sendCalls, obsVars, provVars, netVars>>

\* ------------------------------------ LangGraphProvider.transformStream

\* The text of an SSE body.  "e" stands for the text "event: ", "m" for
\* "messages|", "x" for any other event name, "d" for "data:", "i" for "id:",
\* "[" for the text [{"content":" that opens a message array and "]" for the
\* text "}] that closes it.
SSEBytes == {"e", "m", "x", "d", "i", "[", "]", "a", "b", " ", "\n", "M"}

\* line.startsWith(prefix)
StartsWith(line, prefix) == line # <<>> /\ Head(line) = prefix

\* The data: or "data: " prefix removed from a data line.
StripData(line) ==
  IF Len(line) >= 2 /\ line[1] = "d" /\ line[2] = " " THEN SubSeq(line, 3, Len(line))
  ELSE IF StartsWith(line, "d") THEN Tail(line)
  ELSE line

\* lines.join("\n")
RECURSIVE JoinLines(_)
JoinLines(lines) ==
  IF lines = <<>> THEN <<>>
  ELSE IF Len(lines) = 1 THEN lines[1]
  ELSE lines[1] \o <<"\n">> \o JoinLines(Tail(lines))

\* JSON.parse(jsonStr) and data[0]?.content: whether the text parses, and the
\* content of the message it holds.
ParseMessages(json) ==
  LET t == Trim(json)
      inner == SubSeq(t, 2, Len(t) - 1)
  IN  IF /\ Len(t) >= 2
         /\ t[1] = "["
         /\ t[Len(t)] = "]"
         /\ \A i \in 1..Len(inner) : inner[i] \notin {"[", "]", "\n"}
      THEN [ok |-> TRUE, content |-> inner]
      ELSE [ok |-> FALSE, content |-> <<>>]

\* The SSE transform's locals, with what it enqueued (out).
SSETransform(buffer, dec, event, data, out) ==
  [buffer |-> buffer, dec |-> dec, event |-> event, data |-> data, out |-> out]

\* Mutant: an event is taken when its name holds messages| anywhere.
IsMessagesEventLoose(eventType) ==
  \E i \in 1..Len(eventType) : eventType[i] = "m"

\* eventType.startsWith("messages|")
IsMessagesEvent(eventType) == StartsWith(eventType, "m")

\* processEvent(eventType, dataLines)
ProcessEvent(w) ==
  IF ~IsMessagesEvent(w.event) THEN w
  ELSE LET p == ParseMessages(JoinLines([k \in 1..Len(w.data) |-> StripData(w.data[k])]))
       IN  IF p.ok /\ p.content # <<>>
           THEN [w EXCEPT !.out = Append(w.out, Encode(p.content))]
           ELSE w

\* Mutant: the flush runs twice.
FlushEventTwice(w) ==
  LET once == IF w.event # <<>> /\ w.data # <<>> THEN ProcessEvent(w) ELSE w
  IN  IF once.event # <<>> /\ once.data # <<>> THEN ProcessEvent(once) ELSE once

\* if (currentEvent && dataLines.length > 0) processEvent(...)
FlushEvent(w) ==
  IF w.event # <<>> /\ w.data # <<>> THEN ProcessEvent(w) ELSE w

\* One complete line of the read loop.
SSELine(w, line) ==
  IF StartsWith(line, "e")
  THEN [FlushEvent(w) EXCEPT !.event = Trim(Tail(line)), !.data = <<>>]
  ELSE IF StartsWith(line, "d")
  THEN [w EXCEPT !.data = Append(w.data, line)]
  ELSE IF StartsWith(line, "i")
  THEN [FlushEvent(w) EXCEPT !.event = <<>>, !.data = <<>>]
  ELSE w

RECURSIVE SSELines(_, _)
SSELines(w, lines) ==
  IF lines = <<>> THEN w ELSE SSELines(SSELine(w, Head(lines)), Tail(lines))

\* Mutant: the buffer is the chunk alone, the unfinished line before it lost.
SSEBufferChunk(buffer, chunk) == chunk

\* buffer += chunk
SSEBuffer(buffer, chunk) == buffer \o chunk

\* One turn of the read loop on a chunk.
SSEChunk(w, chunk) ==
  LET d == Decode(w.dec, chunk)
      lines == SplitLines(SSEBuffer(w.buffer, d.text))
  IN  SSELines([w EXCEPT !.buffer = Leftover(lines), !.dec = d.pending],
               Front(lines))

\* let buffer = ""; let currentEvent = ""; let dataLines = [], and a fresh
\* TextDecoder.
SSEStart == SSETransform(<<>>, FALSE, <<>>, <<>>, <<>>)

SSELocals == SSETransform(wbuffer, wdec, currentEvent, dataLines, <<>>)

\* reader.read() yields a chunk.
SSERead(chunk) ==
  /\ providerKind = "langgraph"
  /\ wpc = "reading"
  /\ chunk # <<>>
  /\ LET w == SSEChunk(SSELocals, chunk)
     IN  /\ wbuffer' = w.buffer
         /\ wdec' = w.dec
         /\ currentEvent' = w.event
         /\ dataLines' = w.data
         /\ pq' = pq \o w.out
         /\ produced' = produced \o w.out
  /\ net' = net \o chunk
  /\ carried' = (carried \/ wbuffer # <<>> \/ wdec)
  /\ UNCHANGED <<confVars, auxVars, send, remote, handler, callVars, wrapVars, storeVars, sendCalls,
                 obsVars, pstate, perr, pbad, plocked, hasStreamedContent, wpc>>

\* reader.read() reports done: the event still open is processed, then
\* controller.close() and reader.releaseLock().
SSEEnd ==
  /\ providerKind = "langgraph"
  /\ wpc = "reading"
  /\ wire = <<>>
  /\ LET w == FlushEvent(SSELocals)
     IN  /\ pq' = pq \o w.out
         /\ produced' = produced \o w.out
  /\ pstate' = "closed"
  /\ plocked' = FALSE
  /\ wpc' = "done"
  /\ UNCHANGED <<confVars, auxVars, send, remote, handler, callVars, wrapVars, storeVars, sendCalls,
                 obsVars, perr, pbad, wire, net, carried, wbuffer, wdec,
                 hasStreamedContent, sseVars>>

\* reader.read() rejects: the catch logs and errors the output stream; the
\* finally then calls controller.close() on the errored stream, which throws
\* before reader.releaseLock().
SSEFail ==
  /\ providerKind = "langgraph"
  /\ wpc = "reading"
  /\ LET error == Thrown(Len(failures) + 1, "read", TRUE, "platform")
     IN  /\ failures' = Append(failures, error.kind)
         /\ logEntries' =
              LogError(logEntries, error.fid, <<"[LangGraph]", "Streaming error:">>)
         /\ perr' = error
  /\ pstate' = "errored"
  /\ pq' = QueueAfterError(pq)
  /\ pbad' = pbad + 1
  /\ wpc' = "failed"
  /\ UNCHANGED <<confVars, auxVars, send, remote, handler, callVars, wrapVars, storeVars, sendCalls,
                 errsMade, onErrorCalls, produced, plocked, wire, net, carried,
                 wbuffer, wdec, hasStreamedContent, sseVars>>

\* ------------------------------------------ the providers' sendMessage

ContentTypes ==
  {"application/json", "application/x-ndjson", "text/event-stream", "text/plain"}

\* contentType.includes("text/event-stream") ||
\* contentType.includes("application/x-ndjson")
IsStreamContentType(contentType) ==
  contentType \in {"text/event-stream", "application/x-ndjson"}

\* Mutant: every response is handled as a stream.
ShouldStreamAlways(enableStreaming, contentType) == TRUE

\* this.config.enableStreaming || isStreamContentType
ShouldStream(enableStreaming, contentType) ==
  enableStreaming \/ IsStreamContentType(contentType)

\* Mutant: every status passes for a success.
OkStatusAny(status) == TRUE

\* response.ok
OkStatus(status) == status = "200"

StatusText(status) ==
  IF status = "200" THEN "OK"
  ELSE IF status = "404" THEN "Not Found" ELSE "Internal Server Error"

\* data.output || data.message || JSON.stringify(data)
BufferedText(doc) ==
  IF doc.shape \in {"output", "message"} /\ doc.content # <<>> THEN doc.content
  ELSE doc.json

\* const data = await clonedResponse.json(); data.output || ...: whether the
\* try goes through (reading a field of null throws).
BufferedParses(doc) == doc.ok /\ doc.shape # "null"

\* Mutant: response.json() is called on the response itself.
JsonBodyNoClone == "response"

\* const clonedResponse = response.clone(): the body clonedResponse.json()
\* consumes.
JsonBody == "clone"

\* One more consumer of a body.
ReadBy(readers, body) == [readers EXCEPT ![body] = @ + 1]

\* Mutant: the message field is looked at before the detail field.
LangGraphErrorMessageFirst(status, errorBody) ==
  IF errorBody.json /\ errorBody.message \notin {"absent", ""}
  THEN <<"LangGraph error: ", errorBody.message>>
  ELSE IF errorBody.json /\ errorBody.detail \notin {"absent", ""}
  THEN <<"LangGraph error: ", errorBody.detail>>
  ELSE <<"LangGraph error: ", status, StatusText(status)>>

\* The message LangGraphProvider gives the Error for a status that is not a
\* success.
LangGraphErrorMessage(status, errorBody) ==
  IF errorBody.json /\ errorBody.detail \notin {"absent", ""}
  THEN <<"LangGraph error: ", errorBody.detail>>
  ELSE IF errorBody.json /\ errorBody.message \notin {"absent", ""}
  THEN <<"LangGraph error: ", errorBody.message>>
  ELSE <<"LangGraph error: ", status, StatusText(status)>>

\* The message WebhookProvider gives it.
WebhookErrorMessage(status, errorBody) ==
  <<"Webhook error: ", status, StatusText(status)>>

\* sendMessage throws: the failure, what the provider logs with logError, the
\* Error it constructs.
SendThrows(outcome, reply, readers, message) ==
  LET error == Thrown(Len(failures) + 1, outcome, TRUE, "provider")
  IN  /\ send' = [send EXCEPT !.reply = reply, !.path = outcome,
                              !.readers = readers, !.message = message]
      /\ failures' = Append(failures, outcome)
      /\ logEntries' =
           LogsAfterProvider(logEntries, providerKind, outcome, error.fid)
      /\ errsMade' = Append(errsMade, error)
      /\ UNCHANGED <<wire, wpc, pstate, plocked>>

\* sendMessage returns this.transformStream(response).
SendTransforms(reply, readers) ==
  /\ send' = [send EXCEPT !.reply = reply, !.path = "stream",
                          !.readers = ReadBy(readers, "response")]
  /\ wire' = reply.body
  /\ wpc' = "reading"
  /\ pstate' = "readable"
  /\ plocked' = TRUE
  /\ UNCHANGED <<failures, logEntries, errsMade>>

\* WebhookProvider.sendMessage, from the call to what it returns or throws.
WebhookSendMessage(reply) ==
  /\ providerKind = "webhook"
  /\ send.path = "none"
  /\ IF reply.kind = "reject"
     THEN SendThrows("connect", reply, send.readers,
                     <<"Failed to connect to webhook: ", "cause">>)
     ELSE IF ~OkStatus(reply.status)
     THEN SendThrows("backend", reply, send.readers,
                     WebhookErrorMessage(reply.status, reply.errorBody))
     ELSE IF ~ShouldStream(send.streaming, reply.contentType)
     THEN LET doc == ParseDocument(Decode(FALSE, reply.body).text)
              readers == IF reply.hasBody THEN ReadBy(send.readers, JsonBody)
                         ELSE send.readers
          IN  IF reply.hasBody /\ BufferedParses(doc)
              THEN /\ send' = [send EXCEPT !.reply = reply, !.path = "buffered",
                                           !.readers = readers,
                                           !.text = BufferedText(doc)]
                   /\ UNCHANGED <<failures, logEntries, errsMade, wire, wpc,
                                  pstate, plocked>>
              ELSE IF ~reply.hasBody
              THEN SendThrows("nobody", reply, readers,
                              <<"Failed to parse response as JSON and no body available: ",
                                "cause">>)
              ELSE SendTransforms(reply, readers)
     ELSE IF ~reply.hasBody
     THEN SendThrows("nobody", reply, send.readers, <<"Response body is null">>)
     ELSE SendTransforms(reply, send.readers)
  /\ UNCHANGED <<confVars, auxVars, handler, callVars, wrapVars, storeVars, sendCalls,
                 onErrorCalls, perr, pq, produced, pbad, net, carried, wbuffer,
                 wdec, hasStreamedContent, sseVars, remote>>

\* LangGraphProvider.sendMessage, from the call to what it returns or throws.
LangGraphSendMessage(reply) ==
  /\ providerKind = "langgraph"
  /\ send.path = "none"
  /\ IF reply.kind = "reject"
     THEN SendThrows("connect", reply, send.readers,
                     <<"Failed to connect to LangGraph: ", "cause">>)
     ELSE IF ~OkStatus(reply.status)
     THEN SendThrows("backend", reply,
                     IF reply.hasBody THEN ReadBy(send.readers, "response")
                     ELSE send.readers,
                     LangGraphErrorMessage(reply.status, reply.errorBody))
     ELSE IF ~reply.hasBody
     THEN SendThrows("nobody", reply, send.readers, <<"Response body is null">>)
     ELSE SendTransforms(reply, send.readers)
  /\ UNCHANGED <<confVars, auxVars, handler, callVars, wrapVars, storeVars, sendCalls,
                 onErrorCalls, perr, pq, produced, pbad, net, carried, wbuffer,
                 wdec, hasStreamedContent, sseVars, remote>>

\* -------------------------------------------------- the storage adapters

\* How the adapter's one request (LangGraph) or its access to the medium
\* (local store) can end, by adapter and method.
AdapterOutcomes(kind, op) ==
  IF kind = "langgraph"
  THEN IF op \in {"saveThread", "saveThreadList"} THEN {"ok"}
       ELSE IF op = "getThread"
       THEN {"reject", "200:messages", "200:nomessages", "200:empty", "404", "500"}
       ELSE {"reject", "200", "404", "500"}
  ELSE IF kind = "localstorage"
  THEN IF op = "getThread"
       THEN {"ok", "missing", "throwError", "throwValue"}
       ELSE {"ok", "throwError", "throwValue"}
  ELSE {"ok"}

AllOutcomes ==
  {"ok", "missing", "throwError", "throwValue", "reject", "200", "200:messages",
   "200:nomessages", "200:empty", "404", "500"}

Answer(ret, err, log, made, req) ==
  [ret |-> ret, err |-> err, log |-> log, made |-> made, req |-> req]

\* Mutant: getThread returns null for a thread without messages.
GetThreadResultNull(o) == IF o = "200:messages" THEN "messages" ELSE "null"

\* LangGraphStorageAdapter.getThread: what it returns for the answer o of the
\* deployment: null on 404, [] when the history is empty or its latest entry
\* has no messages, the messages otherwise; null from its catch.
GetThreadResult(o) ==
  IF o = "404" THEN "null"
  ELSE IF o \in {"200:nomessages", "200:empty"} THEN "empty"
  ELSE IF o = "200:messages" THEN "messages"
  ELSE "null"

\* Mutant: only a success passes, 404 raises.
DeleteOkStrict(o) == o = "200"

\* LangGraphStorageAdapter.deleteThread: !(!res.ok && res.status !== 404)
DeleteOk(o) == o \in {"200", "404"}

\* LangGraphStorageAdapter: what method op returns or throws when its request
\* ends with o; what it logs with logError; the Error it constructs; the
\* request it issues.
LangGraphAdapter(op, o, fid) ==
  LET statusErr == Thrown(fid, op, TRUE, "adapter")
      netErr == Thrown(fid, op, TRUE, "platform")
      raised == IF o = "reject" THEN netErr ELSE statusErr
      made == IF o = "reject" THEN <<>> ELSE <<statusErr>>
  IN  CASE op = "getThreadList" ->
             IF o = "200"
             THEN Answer("threads", NoErr, <<>>, <<>>, <<"POST", "/threads/search">>)
             ELSE Answer("empty", NoErr,
                         <<"[LangGraph]", "Error fetching thread list:">>, made,
                         <<"POST", "/threads/search">>)
        [] op = "getThread" ->
             IF o \in {"200:messages", "200:nomessages", "200:empty", "404"}
             THEN Answer(GetThreadResult(o), NoErr, <<>>, <<>>,
                         <<"GET", "/history">>)
             ELSE Answer(GetThreadResult(o), NoErr,
                         <<"[LangGraph]", "Error fetching thread:">>, made,
                         <<"GET", "/history">>)
        [] op = "deleteThread" ->
             IF DeleteOk(o)
             THEN Answer("void", NoErr, <<>>, <<>>, <<"DELETE", "/threads/id">>)
             ELSE Answer("throw", raised,
                         <<"[LangGraph]", "Error deleting thread:">>, made,
                         <<"DELETE", "/threads/id">>)
        [] op = "updateThread" ->
             IF o = "200"
             THEN Answer("void", NoErr, <<>>, <<>>, <<"PATCH", "/threads/id">>)
             ELSE Answer("throw", raised,
                         <<"[LangGraph]", "Error updating thread:">>, made,
                         <<"PATCH", "/threads/id">>)
        [] op = "createThread" ->
             IF o = "200"
             THEN Answer("thread", NoErr, <<>>, <<>>, <<"POST", "/threads">>)
             ELSE Answer("throw", raised, <<>>, made, <<"POST", "/threads">>)
        [] OTHER -> Answer("void", NoErr, <<>>, <<>>, <<>>)

\* The local-store and the no-persistence adapters.
OtherAdapter(kind, op, o, fid) ==
  IF o \in {"throwError", "throwValue"}
  THEN Answer("throw", Thrown(fid, op, o = "throwError", "storage"), <<>>, <<>>, <<>>)
  ELSE CASE op = "getThreadList" ->
              Answer(IF kind = "none" THEN "empty" ELSE "threads", NoErr, <<>>, <<>>, <<>>)
         [] op = "getThread" ->
              Answer(IF kind = "none" \/ o = "missing" THEN "null" ELSE "messages",
                     NoErr, <<>>, <<>>, <<>>)
         [] OTHER -> Answer("void", NoErr, <<>>, <<>>, <<>>)

Adapter(kind, op, o, fid) ==
  IF kind = "langgraph" THEN LangGraphAdapter(op, o, fid)
  ELSE OtherAdapter(kind, op, o, fid)

RequestsOf(a) == IF a.req = <<>> THEN <<>> ELSE <<a.req>>

LogsOf(a, fid) == IF a.log = <<>> THEN <<>> ELSE LogError(<<>>, fid, a.log)

\* ------------------------------------------- the thread-list operations

\* withErrorBoundary around one adapter call whose answer is a: the handler's
\* effects, the fallback ("" when none is given) returned in place of a throw.
Bounded(name, a, context, fallback, ret) ==
  /\ handler' = name
  /\ requests' = RequestsOf(a)
  /\ IF a.ret = "throw"
     THEN /\ failures' = <<name>>
          /\ logEntries' = LogError(LogsOf(a, 1), 1, context)
          /\ errsMade' = ErrsAfterNormalize(a.made, a.err)
          /\ onErrorCalls' = NotifyOnError(<<>>, NormalizeError(a.err))
          /\ opResult' = IF fallback # "" THEN fallback ELSE "throw"
          /\ opThrown' = IF fallback # "" THEN NoErr ELSE BoundaryThrows(a.err)
     ELSE /\ failures' = IF a.log = <<>> THEN <<>> ELSE <<name>>
          /\ logEntries' = LogsOf(a, 1)
          /\ errsMade' = a.made
          /\ onErrorCalls' = <<>>
          /\ opResult' = ret
          /\ opThrown' = NoErr

OpReady == phase = "ready" /\ pc = "idle"

FetchThreadList(o) ==
  /\ OpReady
  /\ o \in AdapterOutcomes(storageKind, "getThreadList")
  /\ LET a == Adapter(storageKind, "getThreadList", o, 1)
     IN  /\ Bounded("fetchThreadList", a, "[Storage] fetchThreadList failed",
                    "empty", a.ret)
         /\ exchange' = Exchange("getThreadList", "", o, a.ret)
  /\ UNCHANGED <<confVars, auxVars, send, remote, callVars, wrapVars, storageCalls, stored, sendCalls,
                 provVars, netVars>>

\* loadThread returns messages || [].
LoadThread(t, o) ==
  /\ OpReady
  /\ o \in AdapterOutcomes(storageKind, "getThread")
  /\ LET a == Adapter(storageKind, "getThread", o, 1)
     IN  /\ Bounded("loadThread", a, "[Storage] loadThread failed", "empty",
                    IF a.ret = "null" THEN "empty" ELSE a.ret)
         /\ exchange' = Exchange("getThread", t, o, a.ret)
  /\ UNCHANGED <<confVars, auxVars, send, remote, callVars, wrapVars, storageCalls, stored, sendCalls,
                 provVars, netVars>>

DeleteThread(t, o) ==
  /\ OpReady
  /\ o \in AdapterOutcomes(storageKind, "deleteThread")
  /\ LET a == Adapter(storageKind, "deleteThread", o, 1)
     IN  /\ Bounded("deleteThread", a, "[Storage] deleteThread failed", "", "void")
         /\ exchange' = Exchange("deleteThread", t, o, a.ret)
         /\ stored' = IF storageKind = "localstorage" /\ a.ret # "throw"
                      THEN NoThread ELSE stored
  /\ UNCHANGED <<confVars, auxVars, send, callVars, wrapVars, storageCalls, sendCalls,
                 provVars, netVars>>

UpdateThread(t, o) ==
  /\ OpReady
  /\ o \in AdapterOutcomes(storageKind, "updateThread")
  /\ LET a == Adapter(storageKind, "updateThread", o, 1)
     IN  /\ Bounded("updateThread", a, "[Storage] updateThread failed", "", "thread")
         /\ exchange' = Exchange("updateThread", t, o, a.ret)
  /\ UNCHANGED <<confVars, auxVars, send, remote, callVars, wrapVars, storageCalls, stored, sendCalls,
                 provVars, netVars>>

\* createThread: the agent-managed adapter creates the thread; with any other
\* adapter the thread is built here, then updateThread and saveThread follow
\* (o2 is how saveThread ends, when it is reached).
CreateThread(o, o2) ==
  /\ OpReady
  /\ IF IsLangGraph
     THEN /\ o \in AdapterOutcomes(storageKind, "createThread")
          /\ o2 = "ok"
          /\ Bounded("createThread",
                     Adapter(storageKind, "createThread", o, 1),
                     "[Storage] createThread failed", "", "thread")
          /\ exchange' =
               Exchange("createThread", "new", o,
                        Adapter(storageKind, "createThread", o, 1).ret)
          /\ storageCalls' = <<>>
     ELSE /\ o \in AdapterOutcomes(storageKind, "updateThread")
          /\ o2 \in AdapterOutcomes(storageKind, "saveThread")
          /\ LET a1 == Adapter(storageKind, "updateThread", o, 1)
                 a2 == Adapter(storageKind, "saveThread", o2, 1)
             IN  IF a1.ret = "throw"
                 THEN /\ o2 = "ok"
                      /\ Bounded("createThread", a1,
                                 "[Storage] createThread failed", "", "thread")
                      /\ exchange' = Exchange("updateThread", "new", o, a1.ret)
                      /\ storageCalls' = <<>>
                 ELSE /\ Bounded("createThread", a2,
                                 "[Storage] createThread failed", "", "thread")
                      /\ exchange' =
                           [Exchange("saveThread", "new", o2, a2.ret)
                              EXCEPT !.prior = <<"updateThread">>]
                      /\ storageCalls' =
                           <<[threadId |-> "new",
                              messages |-> <<UserMsg("new", "first")>>]>>
  /\ UNCHANGED <<confVars, auxVars, send, remote, callVars, wrapVars, stored, sendCalls, provVars,
                 netVars>>

\* LangGraphStorageAdapter.saveThread and saveThreadList, called directly.
AdapterSave(op) ==
  /\ OpReady
  /\ IsLangGraph
  /\ op \in {"saveThread", "saveThreadList"}
  /\ LET a == LangGraphAdapter(op, "ok", 1)
     IN  /\ handler' = op
         /\ requests' = RequestsOf(a)
         /\ opResult' = a.ret
         /\ opThrown' = a.err
         /\ exchange' = Exchange(op, "", "ok", a.ret)
         /\ logEntries' = LogsOf(a, 1)
         /\ errsMade' = a.made
         /\ failures' = <<>>
         /\ onErrorCalls' = <<>>
  /\ UNCHANGED <<confVars, auxVars, send, remote, callVars, wrapVars, storageCalls, stored, sendCalls,
                 provVars, netVars>>

\* ------------------------------------------------------------ specification

Next ==
  \/ \E cfg \in Configs : CreateChat(cfg) /\ UNCHANGED config
  \/ \E t \in ThreadIds, msgs \in MessageLists : ProcessMessage(t, msgs)
  \/ \E o \in {"ok", "throwError", "throwValue"} : SaveUserSettle(o)
  \/ \E o \in SendOutcomes : SendSettle(o)
  \/ ProvEmit
  \/ ProvClose
  \/ ProvFail
  \/ OrchRead
  \/ OrchReadDone
  \/ OrchReadError
  \/ \E o \in {"ok", "throwError", "throwValue"} : SaveAsstSettle(o)
  \/ \E o \in AllOutcomes : FetchThreadList(o)
  \/ \E t \in ThreadIds, o \in AllOutcomes : LoadThread(t, o)
  \/ \E t \in ThreadIds, o \in AllOutcomes :
       DeleteThread(t, o) /\ UNCHANGED remote
  \/ \E t \in ThreadIds, o \in AllOutcomes : UpdateThread(t, o)
  \/ \E o \in AllOutcomes, o2 \in AllOutcomes : CreateThread(o, o2)
  \/ \E op \in {"saveThread", "saveThreadList"} : AdapterSave(op)

Spec == Init /\ [][Next]_vars

\* The webhook transform on its own: the state right after transformStream
\* took the reader of a response body, and a network that delivers that body
\* in chunks of any sizes.
InitWebhook ==
  /\ phase = "ready"
  /\ storageKind = "none"
  /\ providerKind = "webhook"
  /\ handler = "none"
  /\ pc = "idle"
  /\ threadId = ""
  /\ messages = <<>>
  /\ currentSessionId = "null"
  /\ sessionStarts = <<>>
  /\ result = "none"
  /\ rejectedWith = NoErr
  /\ wrapped = "none"
  /\ wrappedErr = NoErr
  /\ delivered = <<>>
  /\ fullContent = <<>>
  /\ marker = FALSE
  /\ odec = FALSE
  /\ storageCalls = <<>>
  /\ stored = NoThread
  /\ requests = <<>>
  /\ sendCalls = <<>>
  /\ opResult = "none"
  /\ opThrown = NoErr
  /\ failures = <<>>
  /\ logEntries = <<>>
  /\ errsMade = <<>>
  /\ onErrorCalls = <<>>
  /\ pstate = "readable"
  /\ perr = NoErr
  /\ pq = <<>>
  /\ produced = <<>>
  /\ pbad = 0
  /\ plocked = TRUE
  /\ wire = <<>>
  /\ net = <<>>
  /\ carried = FALSE
  /\ currentEvent = <<>>
  /\ dataLines = <<>>
  /\ wbuffer = <<>>
  /\ wdec = FALSE
  /\ hasStreamedContent = FALSE
  /\ wpc = "reading"
  /\ send = NoSend
  /\ remote = {}
  /\ exchange = NoExchange
  /\ config = ConfigFor(providerKind, storageKind)
  /\ other = NoOther
  /\ extract = NoExtract
  /\ ui = Mounted

NetChunksUpTo == [n \in 0..MaxNet |-> SeqsUpTo(NetBytes, n)]

\* The network delivers the next chunk of the body.
NetDeliver ==
  /\ Len(net) < MaxNet
  /\ \E chunk \in NetChunksUpTo[MaxNet - Len(net)] : WebhookRead(chunk)
  /\ UNCHANGED wire

NextWebhook ==
  \/ NetDeliver
  \/ WebhookEnd
  \/ WebhookFail

SpecWebhook == InitWebhook /\ [][NextWebhook]_vars

\* The SSE transform on its own: the state right after transformStream took
\* the reader of a response body, the body still on the wire, and a network
\* that delivers it in chunks of any sizes.
SSEEvents ==
  { <<"e", "m", "\n", "d", "[", "a", "]", "\n">>,
    <<"e", "x", "\n", "d", "[", "b", "]", "\n">>,
    <<"e", "x", "m", "\n", "d", " ", "[", "b", "]", "\n">>,
    <<"i", "\n">> }

\* The bodies made of up to MaxEvents of these.
SSETexts == {<<>>} \cup {Flatten(es) : es \in SeqsUpTo(SSEEvents, MaxEvents)}

InitSSE ==
  /\ phase = "ready"
  /\ storageKind = "none"
  /\ providerKind = "langgraph"
  /\ handler = "none"
  /\ pc = "idle"
  /\ threadId = ""
  /\ messages = <<>>
  /\ currentSessionId = "null"
  /\ sessionStarts = <<>>
  /\ result = "none"
  /\ rejectedWith = NoErr
  /\ wrapped = "none"
  /\ wrappedErr = NoErr
  /\ delivered = <<>>
  /\ fullContent = <<>>
  /\ marker = FALSE
  /\ odec = FALSE
  /\ storageCalls = <<>>
  /\ stored = NoThread
  /\ requests = <<>>
  /\ sendCalls = <<>>
  /\ opResult = "none"
  /\ opThrown = NoErr
  /\ failures = <<>>
  /\ logEntries = <<>>
  /\ errsMade = <<>>
  /\ onErrorCalls = <<>>
  /\ pstate = "readable"
  /\ perr = NoErr
  /\ pq = <<>>
  /\ produced = <<>>
  /\ pbad = 0
  /\ plocked = TRUE
  /\ wire \in SSETexts
  /\ net = <<>>
  /\ carried = FALSE
  /\ currentEvent = <<>>
  /\ dataLines = <<>>
  /\ wbuffer = <<>>
  /\ wdec = FALSE
  /\ hasStreamedContent = FALSE
  /\ wpc = "reading"
  /\ send = NoSend
  /\ remote = {}
  /\ exchange = NoExchange
  /\ config = ConfigFor(providerKind, storageKind)
  /\ other = NoOther
  /\ extract = NoExtract
  /\ ui = Mounted

\* The network hands the next k bytes of the body to the SSE transform.
SSEWire ==
  \E k \in 1..Len(wire) :
    /\ SSERead(SubSeq(wire, 1, k))
    /\ wire' = SubSeq(wire, k + 1, Len(wire))

NextSSE ==
  \/ SSEWire
  \/ SSEEnd
  \/ SSEFail

SpecSSE == InitSSE /\ [][NextSSE]_vars

\* The SSE transform on bodies whose last line may lack its newline: the
\* bodies of SpecSSE, and each of them without its last byte.
SSECutTexts == SSETexts \cup {Front(t) : t \in SSETexts \ {<<>>}}

InitSSECut ==
  /\ phase = "ready"
  /\ storageKind = "none"
  /\ providerKind = "langgraph"
  /\ handler = "none"
  /\ pc = "idle"
  /\ threadId = ""
  /\ messages = <<>>
  /\ currentSessionId = "null"
  /\ sessionStarts = <<>>
  /\ result = "none"
  /\ rejectedWith = NoErr
  /\ wrapped = "none"
  /\ wrappedErr = NoErr
  /\ delivered = <<>>
  /\ fullContent = <<>>
  /\ marker = FALSE
  /\ odec = FALSE
  /\ storageCalls = <<>>
  /\ stored = NoThread
  /\ requests = <<>>
  /\ sendCalls = <<>>
  /\ opResult = "none"
  /\ opThrown = NoErr
  /\ failures = <<>>
  /\ logEntries = <<>>
  /\ errsMade = <<>>
  /\ onErrorCalls = <<>>
  /\ pstate = "readable"
  /\ perr = NoErr
  /\ pq = <<>>
  /\ produced = <<>>
  /\ pbad = 0
  /\ plocked = TRUE
  /\ wire \in SSECutTexts
  /\ net = <<>>
  /\ carried = FALSE
  /\ currentEvent = <<>>
  /\ dataLines = <<>>
  /\ wbuffer = <<>>
  /\ wdec = FALSE
  /\ hasStreamedContent = FALSE
  /\ wpc = "reading"
  /\ send = NoSend
  /\ remote = {}
  /\ exchange = NoExchange
  /\ config = ConfigFor(providerKind, storageKind)
  /\ other = NoOther
  /\ extract = NoExtract
  /\ ui = Mounted

SpecSSECut == InitSSECut /\ [][NextSSE]_vars

\* The SSE transform line by line: bodies of whole lines of every kind in
\* every order, delivered in chunks of any sizes.
SSELinePieces ==
  { <<"e", "m", "\n">>,
    <<"e", "x", "\n">>,
    <<"d", "[", "a", "]", "\n">>,
    <<"d", "[", "b", "]", "\n">>,
    <<"i", "\n">>,
    <<"\n">> }

\* The bodies made of up to MaxLines of these.
SSELineTexts == {Flatten(ls) : ls \in SeqsUpTo(SSELinePieces, MaxLines)}

InitSSELines ==
  /\ phase = "ready"
  /\ storageKind = "none"
  /\ providerKind = "langgraph"
  /\ handler = "none"
  /\ pc = "idle"
  /\ threadId = ""
  /\ messages = <<>>
  /\ currentSessionId = "null"
  /\ sessionStarts = <<>>
  /\ result = "none"
  /\ rejectedWith = NoErr
  /\ wrapped = "none"
  /\ wrappedErr = NoErr
  /\ delivered = <<>>
  /\ fullContent = <<>>
  /\ marker = FALSE
  /\ odec = FALSE
  /\ storageCalls = <<>>
  /\ stored = NoThread
  /\ requests = <<>>
  /\ sendCalls = <<>>
  /\ opResult = "none"
  /\ opThrown = NoErr
  /\ failures = <<>>
  /\ logEntries = <<>>
  /\ errsMade = <<>>
  /\ onErrorCalls = <<>>
  /\ pstate = "readable"
  /\ perr = NoErr
  /\ pq = <<>>
  /\ produced = <<>>
  /\ pbad = 0
  /\ plocked = TRUE
  /\ wire \in SSELineTexts
  /\ net = <<>>
  /\ carried = FALSE
  /\ currentEvent = <<>>
  /\ dataLines = <<>>
  /\ wbuffer = <<>>
  /\ wdec = FALSE
  /\ hasStreamedContent = FALSE
  /\ wpc = "reading"
  /\ send = NoSend
  /\ remote = {}
  /\ exchange = NoExchange
  /\ config = ConfigFor(providerKind, storageKind)
  /\ other = NoOther
  /\ extract = NoExtract
  /\ ui = Mounted

SpecSSELines == InitSSELines /\ [][NextSSE]_vars

\* The whole path of a response: the network, the provider's transform, the
\* orchestrator's wrapped stream.  The state is the one processMessage is in
\* once sendMessage has returned the transformed response, for either
\* provider, with the body the server is going to send still on the wire.
WebhookPieces ==
  { <<"{", "a", "}", "\n">>,
    <<"{", "T", "V", "Q", "}", "\n">>,
    <<"{", "M", "M", "}">> }

SSEPieces ==
  { <<"e", "m", "\n", "d", "[", "a", "]", "\n">>,
    <<"e", "m", "\n", "d", " ", "[", "M", "M", "]", "\n">>,
    <<"i", "\n">> }

\* The bodies made of up to MaxPipe pieces.
PipeTexts(kind) ==
  LET pieces == IF kind = "webhook" THEN WebhookPieces ELSE SSEPieces
  IN  {<<>>} \cup {Flatten(ps) : ps \in SeqsUpTo(pieces, MaxPipe)}

InitPipe ==
  /\ phase = "ready"
  /\ storageKind = "none"
  /\ providerKind \in {"webhook", "langgraph"}
  /\ handler = "processMessage"
  /\ pc = "streaming"
  /\ threadId \in ThreadIds
  /\ messages = <<UserMsg("m1", "hi")>>
  /\ currentSessionId = threadId
  /\ sessionStarts = <<threadId>>
  /\ result = "returned"
  /\ rejectedWith = NoErr
  /\ wrapped = "readable"
  /\ wrappedErr = NoErr
  /\ delivered = <<>>
  /\ fullContent = <<>>
  /\ marker = FALSE
  /\ odec = FALSE
  /\ storageCalls = <<[threadId |-> threadId, messages |-> messages]>>
  /\ stored = NoThread
  /\ requests = <<>>
  /\ sendCalls = <<SendCall(threadId, messages)>>
  /\ opResult = "none"
  /\ opThrown = NoErr
  /\ failures = <<>>
  /\ logEntries = <<>>
  /\ errsMade = <<>>
  /\ onErrorCalls = <<>>
  /\ pstate = "readable"
  /\ perr = NoErr
  /\ pq = <<>>
  /\ produced = <<>>
  /\ pbad = 0
  /\ plocked = TRUE
  /\ wire \in PipeTexts(providerKind)
  /\ net = <<>>
  /\ carried = FALSE
  /\ currentEvent = <<>>
  /\ dataLines = <<>>
  /\ wbuffer = <<>>
  /\ wdec = FALSE
  /\ hasStreamedContent = FALSE
  /\ wpc = "reading"
  /\ send = NoSend
  /\ remote = {}
  /\ exchange = NoExchange
  /\ config = ConfigFor(providerKind, storageKind)
  /\ other = NoOther
  /\ extract = NoExtract
  /\ ui = Mounted

\* The network hands the next k bytes of the body to the webhook transform.
WebhookWire ==
  \E k \in 1..Len(wire) :
    /\ WebhookRead(SubSeq(wire, 1, k))
    /\ wire' = SubSeq(wire, k + 1, Len(wire))

\* The marker test on its own: processMessage once sendMessage has returned,
\* with a provider stream that hands over a response text in chunks of any
\* sizes and then ends.  The texts hold the marker in each of its forms, at
\* the start, after other text and after a two-byte character, and the texts
\* that come close to it.
MarkerTexts ==
  { <<"T", "V", "Q">>,
    <<"T", "B", "V", "Q">>,
    <<"T", "V", "B", "Q">>,
    <<"T", "B", "V", "B", "Q">>,
    <<"M", "M", "T", "V", "Q">>,
    <<"Q", "T", "V", "Q", "M">>,
    <<"T", "T", "B", "V", "Q">>,
    <<"T", "B", "B", "V", "Q">>,
    <<"T", "M", "M", "V", "Q">>,
    <<"T", "V", "B", "B", "Q">>,
    <<"V", "Q", "T">>,
    <<"T", "V">>,
    <<"M", "M">>,
    <<>> }

\* The provider's stream enqueues the next k bytes of the text as one chunk.
TextEmit ==
  /\ pc = "streaming"
  /\ pstate = "readable"
  /\ \E k \in 1..Len(wire) :
       /\ pq' = Append(pq, SubSeq(wire, 1, k))
       /\ produced' = Append(produced, SubSeq(wire, 1, k))
       /\ wire' = SubSeq(wire, k + 1, Len(wire))
  /\ UNCHANGED <<confVars, auxVars, send, remote, handler, callVars, wrapVars,
                 storeVars, sendCalls, obsVars, pstate, perr, pbad, plocked,
                 net, carried, wbuffer, wdec, hasStreamedContent, wpc, sseVars>>

\* The provider's stream ends once the whole text was enqueued.
TextClose ==
  /\ wire = <<>>
  /\ ProvClose

InitMarker ==
  /\ phase = "ready"
  /\ storageKind = "none"
  /\ providerKind = "webhook"
  /\ handler = "processMessage"
  /\ pc = "streaming"
  /\ threadId = "t1"
  /\ messages = <<UserMsg("m1", "hi")>>
  /\ currentSessionId = threadId
  /\ sessionStarts = <<threadId>>
  /\ result = "returned"
  /\ rejectedWith = NoErr
  /\ wrapped = "readable"
  /\ wrappedErr = NoErr
  /\ delivered = <<>>
  /\ fullContent = <<>>
  /\ marker = FALSE
  /\ odec = FALSE
  /\ storageCalls = <<[threadId |-> threadId, messages |-> messages]>>
  /\ stored = NoThread
  /\ requests = <<>>
  /\ sendCalls = <<SendCall(threadId, messages)>>
  /\ opResult = "none"
  /\ opThrown = NoErr
  /\ failures = <<>>
  /\ logEntries = <<>>
  /\ errsMade = <<>>
  /\ onErrorCalls = <<>>
  /\ pstate = "readable"
  /\ perr = NoErr
  /\ pq = <<>>
  /\ produced = <<>>
  /\ pbad = 0
  /\ plocked = FALSE
  /\ wire \in MarkerTexts
  /\ net = <<>>
  /\ carried = FALSE
  /\ currentEvent = <<>>
  /\ dataLines = <<>>
  /\ wbuffer = <<>>
  /\ wdec = FALSE
  /\ hasStreamedContent = FALSE
  /\ wpc = "none"
  /\ send = NoSend
  /\ remote = {}
  /\ exchange = NoExchange
  /\ config = ConfigFor(providerKind, storageKind)
  /\ other = NoOther
  /\ extract = NoExtract
  /\ ui = Mounted

NextMarker ==
  \/ TextEmit
  \/ TextClose
  \/ OrchRead
  \/ OrchReadDone
  \/ \E o \in SaveOutcomes("none") : SaveAsstSettle(o)

SpecMarker == InitMarker /\ [][NextMarker]_vars

\* The orchestrator with its progress: the read loop of the wrapped stream
\* is a pending promise chain that the event loop keeps resuming, and every
\* storage call returns.
SpecLive ==
  /\ Spec
  /\ WF_vars(OrchRead)
  /\ WF_vars(OrchReadDone)
  /\ WF_vars(OrchReadError)
  /\ WF_vars(\E o \in {"ok", "throwError", "throwValue"} : SaveAsstSettle(o))

NextPipe ==
  \/ WebhookWire
  \/ WebhookEnd
  \/ WebhookFail
  \/ SSEWire
  \/ SSEEnd
  \/ SSEFail
  \/ OrchRead
  \/ OrchReadDone
  \/ OrchReadError
  \/ \E o \in SaveOutcomes("none") : SaveAsstSettle(o)

SpecPipe == InitPipe /\ [][NextPipe]_vars

\* A provider's sendMessage alone: the reply of fetch is any of the replies
\* below, and a transformed stream then reads the body of the reply.
ErrStatuses == {"404", "500"}

ErrorBodies ==
  {NoErrorBody} \cup
  [json : {TRUE}, detail : {"absent", "", "D"}, message : {"absent", "", "E"}]

\* {"output":"hi"}, {"message":"hi"}, {"output":""}, an item record, plain
\* texts without and with a newline, two NDJSON lines, three lines of which
\* the second is not JSON, the document null, a document whose string is a
\* two-byte character, the empty body.
WebhookBodies ==
  { <<"O", "h", "i", "}">>,
    <<"G", "h", "i", "}">>,
    <<"O", "}">>,
    <<"{", "h", "i", "}">>,
    <<"h", "i">>,
    <<"h", "\n", "i">>,
    <<"h", "i", "\n">>,
    <<"{", "h", "}", "\n", "{", "i", "}", "\n">>,
    <<"{", "h", "}", "\n", "i", "\n", "{", "i", "}", "\n">>,
    <<"N">>,
    <<"O", "M", "M", "}">>,
    <<>> }

SendBodies(kind) ==
  IF kind = "webhook" THEN WebhookBodies ELSE SSEPieces \cup {<<>>}

Replies(kind) ==
  {Reply("reject", "", FALSE, "", <<>>, NoErrorBody)}
  \cup {Reply("response", st, FALSE, "application/json", <<>>, NoErrorBody) :
          st \in ErrStatuses}
  \cup {Reply("response", st, TRUE, "application/json", <<>>, eb) :
          st \in ErrStatuses, eb \in ErrorBodies}
  \cup {Reply("response", "200", FALSE, ct, <<>>, NoErrorBody) :
          ct \in ContentTypes}
  \cup {Reply("response", "200", TRUE, ct, b, NoErrorBody) :
          ct \in ContentTypes, b \in SendBodies(kind)}

InitSend ==
  /\ phase = "ready"
  /\ storageKind = "none"
  /\ providerKind \in {"webhook", "langgraph"}
  /\ handler = "none"
  /\ pc = "idle"
  /\ threadId = ""
  /\ messages = <<>>
  /\ currentSessionId = "null"
  /\ sessionStarts = <<>>
  /\ result = "none"
  /\ rejectedWith = NoErr
  /\ wrapped = "none"
  /\ wrappedErr = NoErr
  /\ delivered = <<>>
  /\ fullContent = <<>>
  /\ marker = FALSE
  /\ odec = FALSE
  /\ storageCalls = <<>>
  /\ stored = NoThread
  /\ requests = <<>>
  /\ sendCalls = <<>>
  /\ opResult = "none"
  /\ opThrown = NoErr
  /\ failures = <<>>
  /\ logEntries = <<>>
  /\ errsMade = <<>>
  /\ onErrorCalls = <<>>
  /\ pstate = "none"
  /\ perr = NoErr
  /\ pq = <<>>
  /\ produced = <<>>
  /\ pbad = 0
  /\ plocked = FALSE
  /\ wire = <<>>
  /\ net = <<>>
  /\ carried = FALSE
  /\ currentEvent = <<>>
  /\ dataLines = <<>>
  /\ wbuffer = <<>>
  /\ wdec = FALSE
  /\ hasStreamedContent = FALSE
  /\ wpc = "none"
  /\ send \in {[NoSend EXCEPT !.streaming = b] : b \in BOOLEAN}
  /\ remote = {}
  /\ exchange = NoExchange
  /\ config = ConfigFor(providerKind, storageKind)
  /\ other = NoOther
  /\ extract = NoExtract
  /\ ui = Mounted

NextSend ==
  \/ \E reply \in Replies("webhook") : WebhookSendMessage(reply)
  \/ \E reply \in Replies("langgraph") : LangGraphSendMessage(reply)
  \/ WebhookWire
  \/ WebhookEnd
  \/ WebhookFail
  \/ SSEWire
  \/ SSEEnd
  \/ SSEFail

SpecSend == InitSend /\ [][NextSend]_vars

\* The LangGraph storage adapter against a deployment that holds threads:
\* a request about a thread the deployment does not hold is answered 404, any
\* request can fail to connect or be answered 500.
RemoteThreads == {"t1", "t2", "t3"}

RemoteFailures == {"reject", "500"}

RemoteStatus(t) == IF t \in remote THEN "200" ELSE "404"

InitStorage ==
  /\ phase = "ready"
  /\ storageKind = "langgraph"
  /\ providerKind = "langgraph"
  /\ handler = "none"
  /\ pc = "idle"
  /\ threadId = ""
  /\ messages = <<>>
  /\ currentSessionId = "null"
  /\ sessionStarts = <<>>
  /\ result = "none"
  /\ rejectedWith = NoErr
  /\ wrapped = "none"
  /\ wrappedErr = NoErr
  /\ delivered = <<>>
  /\ fullContent = <<>>
  /\ marker = FALSE
  /\ odec = FALSE
  /\ storageCalls = <<>>
  /\ stored = NoThread
  /\ requests = <<>>
  /\ sendCalls = <<>>
  /\ opResult = "none"
  /\ opThrown = NoErr
  /\ failures = <<>>
  /\ logEntries = <<>>
  /\ errsMade = <<>>
  /\ onErrorCalls = <<>>
  /\ pstate = "none"
  /\ perr = NoErr
  /\ pq = <<>>
  /\ produced = <<>>
  /\ pbad = 0
  /\ plocked = FALSE
  /\ wire = <<>>
  /\ net = <<>>
  /\ carried = FALSE
  /\ currentEvent = <<>>
  /\ dataLines = <<>>
  /\ wbuffer = <<>>
  /\ wdec = FALSE
  /\ hasStreamedContent = FALSE
  /\ wpc = "none"
  /\ send = NoSend
  /\ remote = RemoteThreads
  /\ exchange = NoExchange
  /\ config = ConfigFor(providerKind, storageKind)
  /\ other = NoOther
  /\ extract = NoExtract
  /\ ui = Mounted

RemoteFetchThreadList ==
  \E o \in RemoteFailures \cup {"200"} : FetchThreadList(o)

RemoteLoadThread(t) ==
  \E o \in RemoteFailures \cup
           (IF t \in remote
            THEN {"200:messages", "200:nomessages", "200:empty"}
            ELSE {"404"}) :
    LoadThread(t, o)

RemoteDeleteThread(t) ==
  \E o \in RemoteFailures \cup {RemoteStatus(t)} :
    /\ DeleteThread(t, o)
    /\ remote' = IF o = "200" THEN remote \ {t} ELSE remote

RemoteUpdateThread(t) ==
  \E o \in RemoteFailures \cup {RemoteStatus(t)} : UpdateThread(t, o)

NextStorage ==
  \/ RemoteFetchThreadList
  \/ \E t \in RemoteThreads : RemoteLoadThread(t)
  \/ \E t \in RemoteThreads : RemoteDeleteThread(t)
  \/ \E t \in RemoteThreads : RemoteUpdateThread(t)

SpecStorage == InitStorage /\ [][NextStorage]_vars

\* Two processMessage invocations in flight, each past its sendMessage with
\* the response stream it was given; their read loops and post-stream saves
\* interleave in every order.  The second invocation is for the same thread
\* or another.
TwoThreads == {"t1", "t2"}

TwoStreams ==
  { <<<<"T">>, <<"V", "Q">>>>,
    <<<<"T", "V", "Q">>, <<"M">>, <<"M">>>>,
    <<<<"V", "Q">>>>,
    <<<<"M">>, <<"M">>>>,
    <<>> }

InitTwo ==
  /\ phase = "ready"
  /\ storageKind \in {"localstorage", "langgraph"}
  /\ providerKind = (IF storageKind = "langgraph" THEN "langgraph" ELSE "webhook")
  /\ handler = "processMessage"
  /\ pc = "streaming"
  /\ threadId \in ThreadIds
  /\ messages = <<UserMsg("m1", "hi")>>
  /\ currentSessionId = threadId
  /\ sessionStarts = <<threadId>>
  /\ result = "returned"
  /\ rejectedWith = NoErr
  /\ wrapped = "readable"
  /\ wrappedErr = NoErr
  /\ delivered = <<>>
  /\ fullContent = <<>>
  /\ marker = FALSE
  /\ odec = FALSE
  /\ storageCalls = IF storageKind = "langgraph" THEN <<>>
                    ELSE <<[threadId |-> threadId, messages |-> messages]>>
  /\ stored = NoThread
  /\ requests = <<>>
  /\ sendCalls = <<SendCall(threadId, messages)>>
  /\ opResult = "none"
  /\ opThrown = NoErr
  /\ failures = <<>>
  /\ logEntries = <<>>
  /\ errsMade = <<>>
  /\ onErrorCalls = <<>>
  /\ pstate = "closed"
  /\ perr = NoErr
  /\ pq \in TwoStreams
  /\ produced = pq
  /\ pbad = 0
  /\ plocked = FALSE
  /\ wire = <<>>
  /\ net = <<>>
  /\ carried = FALSE
  /\ currentEvent = <<>>
  /\ dataLines = <<>>
  /\ wbuffer = <<>>
  /\ wdec = FALSE
  /\ hasStreamedContent = FALSE
  /\ wpc = "none"
  /\ send = NoSend
  /\ remote = {}
  /\ exchange = NoExchange
  /\ config = ConfigFor(providerKind, storageKind)
  /\ other \in {Invocation("streaming", t, <<UserMsg("m7", "yo")>>, stream) :
                  t \in TwoThreads, stream \in TwoStreams}
  /\ extract = NoExtract
  /\ ui = Mounted

NextTwo ==
  \/ OrchRead
  \/ OrchReadDone
  \/ \E o \in SaveOutcomes(storageKind) : SaveAsstSettle(o)
  \/ OtherRead
  \/ OtherReadDone
  \/ \E o \in SaveOutcomes(storageKind) : OtherSaveSettle(o)

SpecTwo == InitTwo /\ [][NextTwo]_vars

\* createChat with the configuration it was given on record, then the thread
\* operations on the adapter it bound.
CreateChatGiven(cfg) == CreateChat(cfg) /\ config' = cfg

NextCreate ==
  \/ \E cfg \in Configs : CreateChatGiven(cfg)
  \/ \E o \in AllOutcomes : FetchThreadList(o)
  \/ \E t \in ThreadIds, o \in AllOutcomes : LoadThread(t, o)
  \/ \E t \in ThreadIds, o \in AllOutcomes : UpdateThread(t, o)
  \/ \E o \in AllOutcomes, o2 \in AllOutcomes : CreateThread(o, o2)

SpecCreate == Init /\ [][NextCreate]_vars

\* The content extractor on its own: a line of the body was parsed to a
\* record with any of these fields.
Records ==
  [type : {"absent", "item", "other"},
   content : {"absent", "", "c", "nonstring"},
   output : {"absent", "", "o", "nonstring"},
   message : {"absent", "", "m", "nonstring"}]

InitExtract ==
  /\ phase = "ready"
  /\ storageKind = "none"
  /\ providerKind = "webhook"
  /\ handler = "none"
  /\ pc = "idle"
  /\ threadId = ""
  /\ messages = <<>>
  /\ currentSessionId = "null"
  /\ sessionStarts = <<>>
  /\ result = "none"
  /\ rejectedWith = NoErr
  /\ wrapped = "none"
  /\ wrappedErr = NoErr
  /\ delivered = <<>>
  /\ fullContent = <<>>
  /\ marker = FALSE
  /\ odec = FALSE
  /\ storageCalls = <<>>
  /\ stored = NoThread
  /\ requests = <<>>
  /\ sendCalls = <<>>
  /\ opResult = "none"
  /\ opThrown = NoErr
  /\ failures = <<>>
  /\ logEntries = <<>>
  /\ errsMade = <<>>
  /\ onErrorCalls = <<>>
  /\ pstate = "readable"
  /\ perr = NoErr
  /\ pq = <<>>
  /\ produced = <<>>
  /\ pbad = 0
  /\ plocked = TRUE
  /\ wire = <<>>
  /\ net = <<>>
  /\ carried = FALSE
  /\ currentEvent = <<>>
  /\ dataLines = <<>>
  /\ wbuffer = <<>>
  /\ wdec = FALSE
  /\ hasStreamedContent = FALSE
  /\ wpc = "reading"
  /\ send = NoSend
  /\ remote = {}
  /\ exchange = NoExchange
  /\ config = ConfigFor(providerKind, storageKind)
  /\ other = NoOther
  /\ extract \in {Extraction("parsed", r, "null", "none") : r \in Records}
  /\ ui = Mounted

NextExtract == ExtractLine

SpecExtract == InitExtract /\ [][NextExtract]_vars

\* The session id over the life of a chat: the state createChat returns in,
\* then thread selections, switches to a new thread, deletions, open and
\* close, and up to MaxCalls processMessage calls, each run to its end
\* against a provider that fails or answers with an empty stream.
InitSession ==
  /\ phase = "ready"
  /\ storageKind = "none"
  /\ providerKind = "webhook"
  /\ handler = "none"
  /\ pc = "idle"
  /\ threadId = ""
  /\ messages = <<>>
  /\ currentSessionId = "null"
  /\ sessionStarts = <<>>
  /\ result = "none"
  /\ rejectedWith = NoErr
  /\ wrapped = "none"
  /\ wrappedErr = NoErr
  /\ delivered = <<>>
  /\ fullContent = <<>>
  /\ marker = FALSE
  /\ odec = FALSE
  /\ storageCalls = <<>>
  /\ stored = NoThread
  /\ requests = <<>>
  /\ sendCalls = <<>>
  /\ opResult = "none"
  /\ opThrown = NoErr
  /\ failures = <<>>
  /\ logEntries = <<>>
  /\ errsMade = <<>>
  /\ onErrorCalls = <<>>
  /\ pstate = "none"
  /\ perr = NoErr
  /\ pq = <<>>
  /\ produced = <<>>
  /\ pbad = 0
  /\ plocked = FALSE
  /\ wire = <<>>
  /\ net = <<>>
  /\ carried = FALSE
  /\ currentEvent = <<>>
  /\ dataLines = <<>>
  /\ wbuffer = <<>>
  /\ wdec = FALSE
  /\ hasStreamedContent = FALSE
  /\ wpc = "none"
  /\ send = NoSend
  /\ remote = {}
  /\ exchange = NoExchange
  /\ config = ConfigFor(providerKind, storageKind)
  /\ other = NoOther
  /\ extract = NoExtract
  /\ ui = Mounted

NextSession ==
  \/ \E t \in TwoThreads : OnSelectThread(t)
  \/ OnSwitchToNew
  \/ \E display \in {"shown", "hidden"} : SetDisplay(display)
  \/ \E t \in TwoThreads, o \in AllOutcomes : DeleteThread(t, o) /\ UNCHANGED remote
  \/ \E t \in TwoThreads, msgs \in MessageLists : ProcessMessage(t, msgs)
  \/ \E t \in TwoThreads, msgs \in MessageLists : ProcessMessageNext(t, msgs)
  \/ \E o \in SaveOutcomes(storageKind) : SaveUserSettle(o)
  \/ \E o \in SendOutcomes : SendSettle(o)
  \/ ProvClose
  \/ OrchReadDone

SpecSession == InitSession /\ [][NextSession]_vars

\* ------------------------------------------------- claims: orchestration

\* text holds pattern as a contiguous piece.
Holds(text, pattern) ==
  \E i \in 0..(Len(text) - Len(pattern)) :
    SubSeq(text, i + 1, i + Len(pattern)) = pattern

\* The integration marker thesys="true", each quote optionally escaped.
MarkerForms ==
  { <<"T", "V", "Q">>, <<"T", "B", "V", "Q">>, <<"T", "V", "B", "Q">>,
    <<"T", "B", "V", "B", "Q">> }

ContainsMarker(text) == \E form \in MarkerForms : Holds(text, form)

\* The text of the whole response so far, decoded in one piece.
ResponseText == Decode(FALSE, Flatten(produced)).text

HasAssistant(msgs) == \E i \in 1..Len(msgs) : msgs[i].id = ResponseId

NoAssistantSaved ==
  /\ \A i \in 1..Len(storageCalls) : ~HasAssistant(storageCalls[i].messages)
  /\ stored = NoThread \/ ~HasAssistant(stored)

\* The orchestrator has seen the provider's stream end.
StreamEnded == pstate = "closed" /\ pc \in {"saveAsst", "done"}

LogCount(f) == Cardinality({i \in 1..Len(logEntries) : logEntries[i].fid = f})

NotifyCount(f) ==
  Cardinality({i \in 1..Len(onErrorCalls) : onErrorCalls[i].fid = f})

ErrCount(f) == Cardinality({i \in 1..Len(errsMade) : errsMade[i].fid = f})

\* C1: when the response stream has ended and its text never held the marker,
\* the wrapped stream is errored with the invalid-response-format error, not
\* closed, and no saveThread call of that send carries an assistant message,
\* whatever the adapter and the provider.
C1_MissingMarkerErrors ==
  (StreamEnded /\ ~ContainsMarker(ResponseText)) =>
    /\ wrapped = "errored"
    /\ wrappedErr.kind = "marker"
    /\ pc = "done"
    /\ NoAssistantSaved

C1_Witness ==
  /\ StreamEnded
  /\ ~ContainsMarker(ResponseText)
  /\ Len(delivered) = 2
  /\ storageKind = "localstorage"
  /\ providerKind = "webhook"
  /\ wrapped = "errored"

\* C3: a post-stream saveThread that fails leaves the wrapped stream closed
\* normally; the failure is logged and never handed to onError.
C3_PostSaveFailureOnlyLogged ==
  \A f \in 1..Len(failures) :
    failures[f] = "saveAsst" =>
      /\ wrapped = "closed"
      /\ result = "returned"
      /\ NotifyCount(f) = 0
      /\ LogCount(f) = 1
      /\ ContainsMarker(ResponseText)

C3_Witness ==
  /\ pc = "done"
  /\ failures = <<"saveAsst">>
  /\ wrapped = "closed"
  /\ onErrorCalls = <<>>

\* C4: with an adapter that is not agent-managed, no saveThread call carries
\* the assistant message before the stream has ended, and once it has ended
\* with the marker present there is exactly one more call: the input messages
\* in their order, then one assistant message with id responseId and the whole
\* text of the response.
C4_AssistantSavedOnce ==
  (storageKind # "langgraph" /\ handler = "processMessage") =>
    /\ pc \in {"saveUser", "sending", "streaming"} =>
         /\ Len(storageCalls) = 1
         /\ ~HasAssistant(storageCalls[1].messages)
    /\ (StreamEnded /\ ContainsMarker(ResponseText)) =>
         /\ Len(storageCalls) = 2
         /\ storageCalls[2] =
              [threadId |-> threadId,
               messages |->
                 messages \o
                   <<[id |-> ResponseId, role |-> "assistant",
                      content |-> ResponseText]>>]

C4_Witness ==
  /\ pc = "done"
  /\ storageKind = "localstorage"
  /\ Len(messages) = 3
  /\ Len(delivered) = 2
  /\ Len(storageCalls) = 2
  /\ stored = storageCalls[2].messages

\* C5: with the agent-managed adapter a processMessage invocation issues no
\* saveThread call at any point, and neither it nor the adapter's saveThread
\* and saveThreadList issue a request or change what is stored.
C5_AgentManagedNoWrite ==
  storageKind = "langgraph" =>
    /\ storageCalls = <<>>
    /\ stored = NoThread
    /\ handler \in {"processMessage", "saveThread", "saveThreadList"} =>
         requests = <<>>
    /\ handler \in {"saveThread", "saveThreadList"} =>
         opResult = "void" /\ opThrown = NoErr

C5_Witness ==
  /\ storageKind = "langgraph"
  /\ handler = "processMessage"
  /\ pc = "done"
  /\ wrapped = "closed"
  /\ Len(delivered) = 2

\* C6: with an adapter that is not agent-managed, provider.sendMessage is not
\* invoked while the save of the user's messages is pending, that save was
\* invoked first, and sendMessage is invoked exactly once per processMessage.
C6_SaveSettlesBeforeSend ==
  handler = "processMessage" =>
    /\ storageKind # "langgraph" =>
         /\ storageCalls # <<>>
         /\ storageCalls[1] = [threadId |-> threadId, messages |-> messages]
         /\ pc = "saveUser" => sendCalls = <<>>
    /\ pc # "saveUser" =>
         sendCalls = <<[sessionId |-> threadId, prompt |-> Last(messages).content]>>

C6_Witness ==
  /\ handler = "processMessage"
  /\ storageKind = "localstorage"
  /\ pc = "sending"
  /\ stored = messages
  /\ Len(sendCalls) = 1

\* C7: when provider.sendMessage fails, processMessage rejects with the error
\* the provider threw, onError is handed that error, no stream is returned and
\* no assistant message is saved.
C7_SendFailureRejects ==
  \A f \in 1..Len(failures) :
    failures[f] \in {"connect", "backend", "nobody"} =>
      /\ pc = "done"
      /\ result = "rejected"
      /\ rejectedWith = Thrown(f, failures[f], TRUE, "provider")
      /\ onErrorCalls = <<rejectedWith>>
      /\ wrapped = "none"
      /\ pstate = "none"
      /\ NoAssistantSaved

C7_Witness ==
  /\ result = "rejected"
  /\ failures = <<"saveUser", "connect">>
  /\ Len(onErrorCalls) = 1

\* C8: no failure is handed to onError more than once.
C8_NotifiedAtMostOnce ==
  \A f \in 1..Len(failures) : NotifyCount(f) <= 1

C8_Witness ==
  /\ pc = "done"
  /\ failures = <<"saveUser", "read">>
  /\ Len(onErrorCalls) = 1
  /\ wrapped = "errored"

\* C9: every failure is logged exactly once and at most one Error object is
\* constructed for it.
C9_LoggedExactlyOnce ==
  \A f \in 1..Len(failures) : LogCount(f) = 1 /\ ErrCount(f) <= 1

\* ---------------------------------------------- claims: the transforms

\* The read loop run on a list of chunks, one after the other.
RECURSIVE TransformChunks(_, _)
TransformChunks(w, chunks) ==
  IF chunks = <<>> THEN w
  ELSE TransformChunks(TransformChunk(w, Head(chunks)), Tail(chunks))

\* What the webhook transform enqueues for a body that arrives in one chunk
\* and then ends.
WholeFragments(bytes) ==
  TransformFlush(TransformChunk(TransformStart, bytes)).out

\* {"type":"item","content":"Hel  and  lo"}\n{"type":"item","content":" world"}\n
\* with "aa" for Hello and " a" for " world".
HelloWorld ==
  << <<"{", "a">>, <<"a", "}", "\n", "{", " ", "a", "}", "\n">> >>

\* C2: whatever chunks the body arrived in, the webhook transform has enqueued
\* the fragments, in order, that it enqueues when the same bytes arrive in one
\* chunk, and it holds back the same unfinished last line; once the body has
\* ended the fragments are those of the whole body in one chunk.  The two
\* chunks of the Hello world example yield its two fragments.
C2_ChunkingInvariant ==
  /\ wpc = "reading" =>
       LET one == TransformChunk(TransformStart, net)
       IN  /\ produced = one.out
           /\ wbuffer = one.buffer
           /\ hasStreamedContent = one.streamed
  /\ wpc = "done" => produced = WholeFragments(net)
  /\ TransformFlush(TransformChunks(TransformStart, HelloWorld)).out =
       << <<"a", "a">>, <<" ", "a">> >>

C2_Witness ==
  /\ wpc = "done"
  /\ carried
  /\ net = <<"{", "M", "M", "}", "\n">>
  /\ produced = <<Encode(<<"U">>)>>
  /\ hasStreamedContent

\* ------------------------------------------------ claims: the pipeline

IsPrefix(a, b) == Len(a) <= Len(b) /\ SubSeq(b, 1, Len(a)) = a

\* The fragments the provider's transform decodes from the bytes the network
\* has delivered, taken in one piece, in the order they stand in the body.
NetFragments ==
  IF providerKind = "webhook"
  THEN IF wpc = "done" THEN WholeFragments(net)
       ELSE TransformChunk(TransformStart, net).out
  ELSE IF wpc = "done" THEN FlushEvent(SSEChunk(SSEStart, net)).out
       ELSE SSEChunk(SSEStart, net).out

\* C10: the fragments handed downstream are the first fragments decoded from
\* the network, in that order, none twice and none left out while the stream
\* is readable, and the accumulation buffer is the decoded text of the chunks
\* read so far, concatenated in the order read.
C10_InOrder ==
  /\ produced = NetFragments
  /\ IsPrefix(delivered, produced)
  /\ pstate # "errored" => delivered \o pq = produced
  /\ fullContent = Decode(FALSE, Flatten(delivered)).text

C10_Witness ==
  /\ providerKind = "langgraph"
  /\ carried
  /\ wpc = "done"
  /\ delivered = <<Encode(<<"a">>), Encode(<<"U">>)>>
  /\ fullContent = <<"a", "U">>
  /\ pq = <<>>

\* ------------------------------------------- claims: the SSE transform

\* The content of the messages| events in a body made of SSEEvents: they, and
\* only they, carry "a".
MessagesContent(bytes) == SelectSeq(bytes, LAMBDA b : b = "a")

\* C11: in the SSE transform only an event whose name starts with messages|
\* yields a fragment: what was enqueued never holds the content of another
\* event, each fragment is the content of one messages| event, and once the
\* body has ended there is one fragment for each messages| event of the body,
\* in order.
C11_OnlyMessagesEvents ==
  providerKind = "langgraph" =>
    /\ \A i \in 1..Len(produced) : produced[i] = <<"a">>
    /\ IsPrefix(Flatten(produced), MessagesContent(net))
    /\ wpc = "done" => Flatten(produced) = MessagesContent(net)

C11_Witness ==
  /\ wpc = "done"
  /\ carried
  /\ net = <<"e", "m", "\n", "d", "[", "a", "]", "\n",
             "e", "x", "\n", "d", "[", "b", "]", "\n">>
  /\ produced = << <<"a">> >>

\* ---------------------------------------------------- claims: sendMessage

\* A fetch that resolved with a success carrying a body.
SuccessWithBody ==
  /\ send.path # "none"
  /\ send.reply.kind = "response"
  /\ send.reply.status = "200"
  /\ send.reply.hasBody

\* The body {"output":"hi"}.
OutputHi == <<"O", "h", "i", "}">>

\* The webhook answered with Content-Type application/json and the body
\* {"output":"hi"} while streaming is not enabled.
JsonOutputHi ==
  /\ providerKind = "webhook"
  /\ SuccessWithBody
  /\ ~send.streaming
  /\ send.reply.contentType = "application/json"
  /\ send.reply.body = OutputHi

\* C12: for a webhook response with Content-Type application/json and the
\* body {"output":"hi"}, streaming not enabled, the text of the response is
\* exactly "hi", made in one piece by the buffered JSON path; the streaming
\* transform is never started.
C12_BufferedJson ==
  JsonOutputHi =>
    /\ send.path = "buffered"
    /\ send.text = <<"h", "i">>
    /\ wpc = "none"
    /\ pstate = "none"
    /\ produced = <<>>
    /\ send.readers.response = 0

C12_Witness == JsonOutputHi /\ send.path = "buffered"

\* The webhook's non-streaming path met a body that is not one JSON document
\* and the transformed stream it fell back to has ended.
FallbackEnded ==
  /\ providerKind = "webhook"
  /\ SuccessWithBody
  /\ ~ShouldStream(send.streaming, send.reply.contentType)
  /\ ~ParseDocument(Decode(FALSE, send.reply.body).text).ok
  /\ wpc = "done"

\* C13: on the webhook's non-streaming path, for a body that is not one JSON
\* document, the text produced is the raw body verbatim, bodies holding
\* newlines included.
C13_RawBodyVerbatim ==
  FallbackEnded => ResponseText = Decode(FALSE, send.reply.body).text

\* The outcome the reply of fetch calls for, in the order of the checks.
OutcomeOf(reply) ==
  IF reply.kind = "reject" THEN "connect"
  ELSE IF reply.status # "200" THEN "backend"
  ELSE IF ~reply.hasBody THEN "nobody"
  ELSE "response"

Contains(message, part) == \E i \in 1..Len(message) : message[i] = part

\* C14: sendMessage ends in exactly one of four outcomes, decided in order:
\* a connection failure whose message holds the cause, else a backend error
\* for a status that is not a success, else a protocol violation for a
\* success without a body, else a response; no stream exists after an error.
C14_OutcomesInOrder ==
  send.path # "none" =>
    /\ OutcomeOf(send.reply) = "connect" =>
         send.path = "connect" /\ Contains(send.message, "cause")
    /\ OutcomeOf(send.reply) = "backend" => send.path = "backend"
    /\ OutcomeOf(send.reply) = "nobody" => send.path = "nobody"
    /\ OutcomeOf(send.reply) = "response" =>
         /\ send.path \in {"buffered", "stream"}
         /\ send.message = <<>>
         /\ send.path = "stream" <=> wpc # "none"
    /\ send.path \in {"connect", "backend", "nobody"} =>
         /\ send.message # <<>>
         /\ failures = <<send.path>>
         /\ Len(errsMade) = 1
         /\ wpc = "none"
         /\ pstate = "none"
         /\ produced = <<>>
         /\ send.text = <<>>

C14_Witness ==
  /\ send.path = "nobody"
  /\ send.reply.status = "200"
  /\ failures = <<"nobody">>
  /\ wpc = "none"

HasText(field) == field \notin {"absent", ""}

\* C15 as stated: for a status that is not a success, the message of the
\* error of either provider holds the HTTP status and, when the body is JSON
\* with a detail or message field, the text of that field, detail first.
C15_StatusAndField ==
  send.path = "backend" =>
    /\ Contains(send.message, send.reply.status)
    /\ send.reply.errorBody.json /\ HasText(send.reply.errorBody.detail) =>
         Contains(send.message, send.reply.errorBody.detail)
    /\ /\ send.reply.errorBody.json
       /\ ~HasText(send.reply.errorBody.detail)
       /\ HasText(send.reply.errorBody.message) =>
         Contains(send.message, send.reply.errorBody.message)

\* C15 amended: the webhook's message is the status and its text whatever the
\* body holds; LangGraph's message is the non-empty detail field of a JSON
\* body, else its non-empty message field, each in place of the status, and
\* the status and its text only when the body gives neither.
C15_StatusOrField ==
  send.path = "backend" =>
    LET status == send.reply.status
        body == send.reply.errorBody
    IN  IF providerKind = "webhook"
        THEN send.message = <<"Webhook error: ", status, StatusText(status)>>
        ELSE IF body.json /\ HasText(body.detail)
        THEN send.message = <<"LangGraph error: ", body.detail>>
        ELSE IF body.json /\ HasText(body.message)
        THEN send.message = <<"LangGraph error: ", body.message>>
        ELSE send.message = <<"LangGraph error: ", status, StatusText(status)>>

C15_Witness ==
  /\ providerKind = "langgraph"
  /\ send.path = "backend"
  /\ HasText(send.reply.errorBody.detail)
  /\ HasText(send.reply.errorBody.message)
  /\ send.message = <<"LangGraph error: ", send.reply.errorBody.detail>>

\* C17: on every path through sendMessage each response body is handed to at
\* most one consumer; where the webhook tries the buffered JSON parse and
\* falls back to the transform, the parse consumed the clone and the
\* transform reads the response.
C17_OneConsumerPerBody ==
  /\ send.readers.response <= 1
  /\ send.readers.clone <= 1
  /\ send.path = "stream" => send.readers.response = 1
  /\ send.path = "buffered" => send.readers = [response |-> 0, clone |-> 1]

C17_Witness ==
  /\ providerKind = "webhook"
  /\ send.path = "stream"
  /\ wpc = "done"
  /\ send.readers = [response |-> 1, clone |-> 1]

\* ------------------------------------------- claims: a failing body read

\* C16: when reading the network body fails in mid-stream, the transform of
\* either provider ends its output stream with an error, never a normal end;
\* the consumer observes that error; no fragment is emitted or handed to the
\* consumer after the failure.
C16_ReadFailureErrors ==
  /\ [](wpc = "failed" =>
          /\ pstate = "errored"
          /\ perr.kind = "read"
          /\ pq = <<>>
          /\ wrapped # "closed"
          /\ pc = "done" => wrapped = "errored" /\ wrappedErr = perr)
  /\ [][wpc = "failed" =>
          /\ wpc' = "failed"
          /\ pstate' = "errored"
          /\ produced' = produced
          /\ delivered' = delivered]_vars

C16_Witness ==
  /\ providerKind = "langgraph"
  /\ wpc = "failed"
  /\ produced # <<>>
  /\ wire # <<>>
  /\ wrapped = "errored"
  /\ wrappedErr = perr

\* --------------------------------------------- claims: the storage adapter

\* The adapter's getThread was the last call, and the deployment answered it.
GetThreadAnswered ==
  /\ IsLangGraph
  /\ exchange.op = "getThread"
  /\ exchange.outcome \notin RemoteFailures

C19_DeleteIdempotent ==
  IsLangGraph /\ exchange.op = "deleteThread" =>
    /\ exchange.thread \notin remote \/ exchange.outcome \in RemoteFailures
    /\ exchange.outcome \in {"200", "404"} =>
         /\ exchange.ret = "void"
         /\ opResult = "void"
         /\ opThrown = NoErr
         /\ onErrorCalls = <<>>
         /\ exchange.thread \notin remote
    /\ exchange.outcome \in RemoteFailures =>
         /\ exchange.ret = "throw"
         /\ opResult = "throw"
         /\ opThrown # NoErr
         /\ Len(onErrorCalls) = 1

\* The second delete of a thread: the deployment held every thread at first.
C19_Witness ==
  /\ IsLangGraph
  /\ exchange.op = "deleteThread"
  /\ exchange.outcome = "404"
  /\ exchange.thread \notin remote
  /\ opResult = "void"
  /\ onErrorCalls = <<>>

\* One of the four thread operations met a storage failure.
ThreadOpFailed ==
  /\ handler \in {"fetchThreadList", "loadThread", "deleteThread", "updateThread"}
  /\ failures # <<>>

\* The failure was caught inside the adapter itself.
CaughtByAdapter ==
  IsLangGraph /\ handler \in {"fetchThreadList", "loadThread"}

TextOf(stream) == Decode(FALSE, Flatten(stream)).text

\* The content of the assistant message a saveThread call carries.
AssistantContent(call) == Last(call.messages).content

\* C21: of two interleaved processMessage invocations, for the same thread or
\* for different ones, each accumulates into its own buffer and marker flag:
\* whatever the interleaving of their reads, the assistant content each
\* persists and the marker verdict each reaches are those of its own response
\* stream.
C21_OwnBufferAndFlag ==
  /\ pc \in {"saveAsst", "done"} =>
       /\ marker = ContainsMarker(TextOf(produced))
       /\ wrapped = "errored" <=> ~ContainsMarker(TextOf(produced))
       /\ \A i \in 1..Len(storageCalls) :
            HasAssistant(storageCalls[i].messages) =>
              AssistantContent(storageCalls[i]) = TextOf(produced)
  /\ other.pc \in {"saveAsst", "done"} =>
       /\ other.marker = ContainsMarker(TextOf(other.stream))
       /\ other.wrapped = "errored" <=> ~ContainsMarker(TextOf(other.stream))
       /\ other.saved # <<>> =>
            AssistantContent(other.saved[1]) = TextOf(other.stream)

\* Both invocations, for the same thread, have persisted different contents
\* after their reads alternated.
C21_Witness ==
  /\ pc = "done"
  /\ other.pc = "done"
  /\ other.threadId = threadId
  /\ other.saved # <<>>
  /\ Len(storageCalls) = 2
  /\ AssistantContent(other.saved[1]) # AssistantContent(storageCalls[2])
  /\ Len(other.stream) > 1
  /\ Len(produced) > 1

\* ------------------------------------------- claims: emission and the save

\* The post-stream saveThread call of this invocation was made.
PostStreamSaveBegun ==
  \E i \in 1..Len(storageCalls) : HasAssistant(storageCalls[i].messages)

\* C22: accumulating for persistence never blocks emission: every fragment of
\* the response was forwarded on the wrapped stream before the post-stream
\* save begins, and a fragment is forwarded only in the read loop, with no
\* storage call of the invocation pending or started by that step.
C22_EmissionBeforeSave ==
  /\ [](PostStreamSaveBegun =>
          /\ pq = <<>>
          /\ delivered = produced
          /\ pstate = "closed")
  /\ [][delivered' # delivered /\ pc # "sending" =>
          /\ pc = "streaming"
          /\ pc' = "streaming"
          /\ Len(delivered') = Len(delivered) + 1
          /\ storageCalls' = storageCalls
          /\ stored' = stored]_vars

C22_Witness ==
  /\ pc = "saveAsst"
  /\ PostStreamSaveBegun
  /\ Len(delivered) > 1
  /\ delivered = produced
  /\ wrapped = "readable"

\* ---------------------------------------------- claims: creating a thread

\* C23: with the agent-managed adapter createThread takes the thread from the
\* adapter's createThread(title) and makes no updateThread and no saveThread
\* call; with any other adapter it calls updateThread(thread) and, only once
\* that succeeded, saveThread with exactly one user message.
C23_CreateThreadCalls ==
  handler = "createThread" =>
    IF storageKind = "langgraph"
    THEN /\ exchange.op = "createThread"
         /\ exchange.prior = <<>>
         /\ storageCalls = <<>>
         /\ requests = <<<<"POST", "/threads">>>>
    ELSE \/ /\ exchange.op = "updateThread"
            /\ exchange.prior = <<>>
            /\ exchange.ret = "throw"
            /\ opResult = "throw"
            /\ storageCalls = <<>>
         \/ /\ exchange.op = "saveThread"
            /\ exchange.prior = <<"updateThread">>
            /\ requests = <<>>
            /\ Len(storageCalls) = 1
            /\ Len(storageCalls[1].messages) = 1
            /\ storageCalls[1].messages[1].role = "user"

C23_Witness ==
  /\ handler = "createThread"
  /\ storageKind = "localstorage"
  /\ exchange.op = "saveThread"
  /\ exchange.prior = <<"updateThread">>
  /\ opResult = "thread"
  /\ Len(storageCalls) = 1

\* --------------------------------------------- claims: the bound adapter

\* createChat succeeded on a configuration that leaves storageType out.
StorageTypeOmitted == phase = "ready" /\ config.storageType = "unset"

NonEmptyText(value) == IsString(value) /\ value # ""

\* The first non-empty text among the item content, the output and the
\* message of a record, "none" when there is none.
FirstNonEmpty(data) ==
  IF data.type = "item" /\ NonEmptyText(data.content) THEN data.content
  ELSE IF NonEmptyText(data.output) THEN data.output
  ELSE IF NonEmptyText(data.message) THEN data.message
  ELSE "none"

\* C25: the fragment of a record is the first non-empty text found by probing
\* the item content, then output, then message; a field that is present but
\* empty lets the next non-empty one through; a record matching none yields
\* no fragment.
C25_FirstNonEmptyField ==
  extract.step = "done" => extract.fragment = FirstNonEmpty(extract.record)

\* ---------------------------------------------- claims: the NDJSON lines

\* The fragments of the complete lines of a text that hold a record with
\* content, in order.
LineFragments(text) ==
  LET lines == Front(SplitLines(text))
      valid == SelectSeq(lines, LAMBDA l : ParseLine(l).ok /\ ParseLine(l).content # <<>>)
  IN  [i \in 1..Len(valid) |-> Encode(ParseLine(valid[i]).content)]

\* The complete lines of a text that are not blank and do not parse.
BadLines(text) ==
  SelectSeq(Front(SplitLines(text)),
            LAMBDA l : Trim(l) # <<>> /\ ~ParseLine(l).ok)

\* The webhook transform is at work on a body, no read of which has failed.
NdjsonAtWork == providerKind = "webhook" /\ wpc \in {"reading", "done"}

\* C26: a complete line that does not parse as JSON is skipped and the stream
\* goes on: the fragments enqueued are those of the valid complete lines, in
\* order, those after the skipped line included, and the output stream ends
\* normally.
C26_BadLineSkipped ==
  NdjsonAtWork =>
    /\ wpc = "reading" =>
         /\ pstate = "readable"
         /\ produced = LineFragments(Decode(FALSE, net).text)
    /\ wpc = "done" =>
         /\ pstate = "closed"
         /\ IsPrefix(LineFragments(Decode(FALSE, net).text), produced)
         /\ Len(produced) <= Len(LineFragments(Decode(FALSE, net).text)) + 1

C26_Witness ==
  /\ NdjsonAtWork
  /\ wpc = "done"
  /\ pstate = "closed"
  /\ Len(BadLines(Decode(FALSE, net).text)) = 1
  /\ produced = <<<<"h">>, <<"i">>>>
  /\ Len(logEntries) = 1

\* ------------------------------------------- claims: the leftover buffer

\* The step on which the webhook transform reaches the end of the input.
EndOfInput == providerKind = "webhook" /\ wpc = "reading" /\ wpc' = "done"

\* The fragments that step enqueues.
EndFragments == SubSeq(produced', Len(produced) + 1, Len(produced'))

WebhookSettled ==
  /\ providerKind = "webhook"
  /\ send.path # "none"
  /\ send.reply.kind = "response"
  /\ send.reply.status = "200"

\* Streaming is expected: the flag, or a Content-Type of a stream.
StreamingExpected ==
  \/ send.streaming
  \/ send.reply.contentType \in {"text/event-stream", "application/x-ndjson"}

\* JSON.parse of the whole body throws.
BodyParseThrows == ~ParseDocument(Decode(FALSE, send.reply.body).text).ok

\* C28: a response is handled as a stream iff enableStreaming is set or the
\* Content-Type is event-stream or ndjson.  Streaming expected: the buffered
\* JSON parse is never attempted.  Not expected: it is attempted first, and
\* the transform is used only if that parse throws.
C28_TransformOnlyIfParseThrows ==
  WebhookSettled =>
    /\ StreamingExpected =>
         /\ send.readers.clone = 0
         /\ send.path = (IF send.reply.hasBody THEN "stream" ELSE "nobody")
    /\ ~StreamingExpected /\ send.reply.hasBody =>
         /\ send.readers.clone = 1
         /\ send.path \in {"buffered", "stream"}
         /\ send.path = "stream" <=> BodyParseThrows
    /\ ~StreamingExpected /\ ~send.reply.hasBody => send.path = "nobody"

\* ------------------------------------------------ claims: the SSE events

\* The kinds of line the read loop tells apart.
IsEventLine(line) == StartsWith(line, "e")
IsDataLine(line) == StartsWith(line, "d")
IsIdLine(line) == StartsWith(line, "i")

\* The index of the line that terminates the event begun at line i: the next
\* event: or id: line, or one past the last line when the input ends first.
EventEnd(lines, i) ==
  LET js == {j \in (i + 1)..Len(lines) :
               IsEventLine(lines[j]) \/ IsIdLine(lines[j])}
  IN  IF js = {} THEN Len(lines) + 1
      ELSE CHOOSE j \in js : \A k \in js : j <= k

\* The fragment of the event begun at line i: the content of its data lines
\* when it is a messages event with data that parse.
EventFragment(lines, i) ==
  LET data == SelectSeq(SubSeq(lines, i + 1, EventEnd(lines, i) - 1), IsDataLine)
      p == ParseMessages(JoinLines([k \in 1..Len(data) |-> StripData(data[k])]))
  IN  IF /\ StartsWith(Trim(Tail(lines[i])), "m")
         /\ data # <<>>
         /\ p.ok
         /\ p.content # <<>>
      THEN <<Encode(p.content)>>
      ELSE <<>>

\* The fragments of the events begun at line i or later, in order: of all of
\* them, or of those that a later line has terminated.
RECURSIVE EventFragments(_, _, _)
EventFragments(lines, i, atEnd) ==
  IF i > Len(lines) THEN <<>>
  ELSE (IF IsEventLine(lines[i]) /\ (atEnd \/ EventEnd(lines, i) <= Len(lines))
        THEN EventFragment(lines, i) ELSE <<>>)
       \o EventFragments(lines, i + 1, atEnd)

\* The complete lines delivered to the SSE transform so far.
SSELinesSeen == Front(SplitLines(Decode(FALSE, net).text))

\* C29: data lines are gathered under the current event, which is flushed by
\* the next event: line, by an id: line or by the end of the stream, and each
\* event yields its fragment once whichever of them ends it; blank lines
\* change nothing; data lines under no event (before the first event: line,
\* after an id: line) yield nothing.
C29_EventsFlushedOnce ==
  providerKind = "langgraph" /\ wpc \in {"reading", "done"} =>
    /\ produced = EventFragments(SSELinesSeen, 1, wpc = "done")
    /\ produced = EventFragments(SelectSeq(SSELinesSeen, LAMBDA l : l # <<>>),
                                 1, wpc = "done")
    /\ (\A i \in 1..Len(SSELinesSeen) : ~IsEventLine(SSELinesSeen[i])) =>
         produced = <<>>

C29_Witness ==
  /\ providerKind = "langgraph"
  /\ wpc = "done"
  /\ net = <<"e", "m", "\n", "d", "[", "a", "]", "\n", "i", "\n">>
  /\ currentEvent = <<>>
  /\ produced = <<<<"a">>>>

\* ------------------------------- claims: the wrapped stream's one outcome

\* The wrapped stream has reached a terminal outcome.
WrappedTerminal == wrapped \in {"closed", "errored"}

\* The failures that error the wrapped stream: a rejected read, the missing
\* marker.
StreamFailures == {"read", "marker"}

\* How many times the error callback was invoked for the stream.
StreamNotifyCount ==
  Cardinality({i \in 1..Len(onErrorCalls) : onErrorCalls[i].kind \in StreamFailures})

\* C30: the wrapped stream reaches one terminal outcome, closed or errored,
\* and keeps it; no chunk is enqueued on it afterwards; and the error callback
\* is invoked for the stream, once, exactly when the outcome is errored.
C30_OneTerminalOutcome ==
  /\ [](wrapped # "none" =>
          /\ StreamNotifyCount = (IF wrapped = "errored" THEN 1 ELSE 0)
          /\ wrapped = "errored" =>
               /\ wrappedErr.kind \in StreamFailures
               /\ NotifyCount(wrappedErr.fid) = 1
          /\ WrappedTerminal <=> pc = "done")
  /\ [][WrappedTerminal => wrapped' = wrapped /\ delivered' = delivered]_vars

C30_Witness ==
  /\ wrapped = "errored"
  /\ wrappedErr.kind = "marker"
  /\ delivered # <<>>
  /\ StreamNotifyCount = 1
  /\ pc = "done"

\* --------------------------------- claims: how a provider transform ends

\* A provider transform has terminated: at the end of the body, or on a
\* failed read of it.
TransformTerminated == wpc \in {"done", "failed"}

\* C31: on every termination path of a provider transform, the end of the
\* body and a failed read of it, the output stream got one terminal signal
\* (no close attempted on a stream already errored) and the reader's lock on
\* the response body was released.
C31_OneSignalAndRelease ==
  TransformTerminated =>
    /\ pstate = (IF wpc = "done" THEN "closed" ELSE "errored")
    /\ pbad = 0
    /\ ~plocked

\* ------------------------------------ claims: the wrapped stream finishes

\* The provider's stream has ended or errored while the wrapped stream is
\* still open.
ProviderTerminated ==
  wrapped = "readable" /\ pstate \in {"closed", "errored"}

\* C32: once the provider's stream has ended or errored, and every storage
\* call returning, the wrapped stream eventually is closed or errored; with
\* an adapter that is not agent-managed the close comes only on the step at
\* which the post-stream saveThread settles.
C32_WrappedEventuallyTerminal ==
  /\ ProviderTerminated ~> wrapped \in {"closed", "errored"}
  /\ [][wrapped # "closed" /\ wrapped' = "closed" /\ storageKind # "langgraph" =>
          /\ pc = "saveAsst"
          /\ Len(storageCalls) = 2
          /\ storageCalls' = storageCalls]_vars

C32_Witness ==
  /\ wrapped = "closed"
  /\ storageKind = "localstorage"
  /\ pc = "done"
  /\ Len(storageCalls) = 2
  /\ failures = <<"saveAsst">>

\* ------------------------------------- claims: the marker and the chunks

\* The text of the chunks read so far, decoded in one piece.
DeliveredText == Decode(FALSE, Flatten(delivered)).text

\* C33: whatever the split of the response text into chunks, the marker is
\* judged present exactly when the text read so far, taken as a whole, holds
\* it, a marker lying across two or more chunks included; the stream is
\* errored at the end exactly when the whole text does not hold it; and a
\* marker once judged present stays so.
C33_VerdictIgnoresChunking ==
  /\ [](wrapped # "none" =>
          /\ marker <=> ContainsMarker(DeliveredText)
          /\ pc \in {"saveAsst", "done"} =>
               /\ wire = <<>>
               /\ delivered = produced
               /\ marker <=> ContainsMarker(ResponseText)
               /\ wrapped = "errored" <=> ~ContainsMarker(ResponseText))
  /\ [][marker => marker']_vars

C33_Witness ==
  /\ delivered = <<<<"T">>, <<"B", "V">>, <<"B">>, <<"Q">>>>
  /\ marker
  /\ wrapped = "closed"

\* ------------------------------------- claims: the chunks sent downstream

\* The wrapped stream was errored for the missing marker.
MarkerViolation == wrapped = "errored" /\ wrappedErr.kind = "marker"

\* C34: the chunks the wrapped stream delivers are those the provider's
\* stream produced, the same ones in the same order: at any moment the ones
\* delivered are the first of those produced, each step delivers the next
\* one unaltered, and when the provider's stream has ended and was read to
\* its end nothing is missing; when the error for the missing marker is
\* signalled every chunk produced was delivered before.
C34_DeliveredIsProduced ==
  /\ [](wrapped # "none" =>
          /\ IsPrefix(delivered, produced)
          /\ pstate # "errored" => delivered \o pq = produced
          /\ pstate = "closed" /\ pc \in {"saveAsst", "done"} =>
               delivered = produced
          /\ MarkerViolation => pstate = "closed" /\ delivered = produced)
  /\ [][delivered' # delivered /\ pc # "sending" =>
          /\ pq # <<>>
          /\ delivered' = Append(delivered, Head(pq))
          /\ wrapped = "readable" /\ wrapped' = "readable"]_vars

C34_Witness ==
  /\ MarkerViolation
  /\ delivered = <<<<"M">>, <<"T", "V">>>>
  /\ produced = delivered

\* --------------------------------- claims: a failed save before the send

\* The pre-send save of the user's messages has failed.
SaveUserFailed ==
  /\ handler = "processMessage"
  /\ failures # <<>>
  /\ failures[1] = "saveUser"

\* C35: when the pre-send save of the user's messages fails the send still
\* takes place, with the content of the last message as the prompt; the
\* error callback is not invoked for that failure; and processMessage is not
\* rejected because of it: it returns the response, or is rejected with the
\* failure of the send.
C35_SaveFailureStillSends ==
  SaveUserFailed =>
    /\ pc \in {"sending", "streaming", "saveAsst", "done"}
    /\ sendCalls = <<[sessionId |-> threadId, prompt |-> Last(messages).content]>>
    /\ \A i \in 1..Len(onErrorCalls) : onErrorCalls[i].kind # "saveUser"
    /\ pc = "sending" => onErrorCalls = <<>> /\ result = "none"
    /\ pc # "sending" =>
         \/ result = "returned"
         \/ /\ result = "rejected"
            /\ rejectedWith.kind \in SendOutcomes \ {"stream"}
            /\ failures[2] = rejectedWith.kind

C35_Witness ==
  /\ SaveUserFailed
  /\ result = "returned"
  /\ wrapped = "closed"
  /\ Len(messages) = 3
  /\ sendCalls = <<[sessionId |-> threadId, prompt |-> "more"]>>
  /\ onErrorCalls = <<>>

\* --------------------------- claims: one document, buffered or streamed

\* The document the body of the response holds.
BodyDocument == ParseDocument(Decode(FALSE, send.reply.body).text)

\* The webhook answered with one JSON document {"output": s} or
\* {"message": s}, s not empty.
SingleDocument ==
  /\ WebhookSettled
  /\ send.reply.hasBody
  /\ BodyDocument.ok
  /\ BodyDocument.shape \in {"output", "message"}
  /\ BodyDocument.content # <<>>

\* C36: for a body that is one JSON document {"output": s} or {"message": s}
\* with s not empty, the text of the response sendMessage returns is s,
\* whether the body went through the buffered JSON parse (streaming not
\* expected) or through the streaming transform (enableStreaming set), in
\* whatever chunks the body arrived.
C36_BufferedEqualsStreamed ==
  SingleDocument =>
    /\ send.path = (IF StreamingExpected THEN "stream" ELSE "buffered")
    /\ send.path = "buffered" => send.text = BodyDocument.content
    /\ send.path = "stream" =>
         /\ wpc = "reading" => produced = <<>>
         /\ wpc = "done" =>
              /\ pstate = "closed"
              /\ Decode(FALSE, Flatten(produced)).text = BodyDocument.content

C36_Witness ==
  /\ SingleDocument
  /\ send.streaming
  /\ send.reply.body = <<"O", "M", "M", "}">>
  /\ wpc = "done"
  /\ carried
  /\ produced = <<<<"M", "M">>>>

\* ------------------------------------ claims: the SSE transform's chunks

\* The state of the SSE transform's read loop when the bytes arrive in one
\* chunk.
SSEUnsplit(bytes) == SSEChunk(SSEStart, bytes)

\* C37: whatever chunks an SSE body arrived in, the transform has enqueued
\* the fragments, in order, that it enqueues when the same bytes arrive in
\* one chunk, an event:, data: or id: line lying across chunks included, and
\* holds the same unfinished line, event and data lines; after the end of the
\* body the fragments are those of the whole body in one chunk, a last line
\* without its newline included.
C37_SSEChunkingInvariant ==
  providerKind = "langgraph" =>
    LET one == SSEUnsplit(net)
    IN  /\ wpc = "reading" =>
             /\ produced = one.out
             /\ wbuffer = one.buffer
             /\ currentEvent = one.event
             /\ dataLines = one.data
        /\ wpc = "done" => produced = FlushEvent(one).out

C37_Witness ==
  /\ providerKind = "langgraph"
  /\ wpc = "done"
  /\ carried
  /\ net = <<"e", "m", "\n", "d", "[", "a", "]", "\n",
             "e", "m", "\n", "d", "[", "a", "]">>
  /\ wbuffer = <<"d", "[", "a", "]">>
  /\ produced = <<<<"a">>>>

\* ------------------------------------------------ claims: the session id

\* The thread id of the session event that came last: a thread selection or
\* a processMessage call; "" before the first.
LastSessionThread ==
  IF ui.event = "onSelectThread" THEN ui.selected
  ELSE IF ui.event = "processMessage" THEN threadId
  ELSE ""

\* C38: getSessionId returns "" until the first thread selection or
\* processMessage call, and from then on the thread id of the latest of
\* them; switching to a new thread, deleting a thread, open and close do not
\* change what it returns.
C38_SessionIsLastEvent ==
  /\ [](phase = "ready" => GetSessionId = LastSessionThread)
  /\ [][handler' \notin {"onSelectThread", "processMessage"} =>
          currentSessionId' = currentSessionId]_vars

C38_Witness ==
  /\ ui.event = "onSelectThread"
  /\ ui.selected = "t2"
  /\ threadId = "t1"
  /\ Len(sendCalls) = 2
  /\ handler = "onSwitchToNew"
  /\ ui.container = "hidden"
  /\ GetSessionId = "t2"

\* -------------------------------------- claims: createChat that throws

\* createChat was called with the configuration recorded.
CreateChatCalled == phase # "uninit" /\ handler = "createChat"

\* The configuration has neither an n8n nor a langgraph section.
NoSection == config.n8n = "absent" /\ config.langgraph = "absent"

\* No provider can be built: neither section carries its URL.
NoProviderUrl == config.n8n # "url" /\ config.langgraph # "url"

\* The storage type, given or defaulted, is langgraph and there is no
\* deployment URL.
NoDeploymentUrl ==
  /\ \/ config.storageType = "langgraph"
     \/ config.storageType = "unset" /\ config.langgraph # "absent"
  /\ config.langgraph # "url"

\* C39: when createChat is given neither an n8n nor a langgraph section, or
\* the provider or the storage adapter cannot be built, createChat throws,
\* the error callback was invoked once, no container element was appended to
\* the document and nothing was rendered.
C39_FailedInitLeavesNothing ==
  CreateChatCalled /\ (NoSection \/ NoProviderUrl \/ NoDeploymentUrl) =>
    /\ phase = "failed"
    /\ Len(onErrorCalls) = 1
    /\ onErrorCalls[1].kind = "init"
    /\ ui.container = "absent"
    /\ ~ui.rendered

C39_Witness ==
  /\ CreateChatCalled
  /\ config = [n8n |-> "url", langgraph |-> "absent", storageType |-> "langgraph"]
  /\ phase = "failed"
  /\ errsMade[1].ctor = "createStorageAdapter"
  /\ Len(onErrorCalls) = 1
  /\ ui = NoUi

====
